---------------------------- MODULE Spec2Model ----------------------------
(***************************************************************************)
(* Model of the signal performance evaluator and batch updater of          *)
(* pumpmybagsbot (src/src/services/signal_processor.py), with the price    *)
(* normaliser parse_price (src/src/services/price_service.py).             *)
(*                                                                         *)
(* Python floats are IEEE-754 binary64 numbers.  They are modelled exactly *)
(* as sign * mantissa * 2^exponent with an arbitrary-precision mantissa    *)
(* held in 15-bit limbs, and every arithmetic step rounds to 53 bits,      *)
(* nearest-even, as the hardware does.                                     *)
(***************************************************************************)
EXTENDS Integers, Sequences, FiniteSets, TLC

(***************************************************************************)
(* Optional values: a key that is absent from a dict, or Python's None, is *)
(* the empty sequence; a present value v is <<v>>.                         *)
(***************************************************************************)
None == <<>>
Some(v) == <<v>>
IsSome(o) == o # <<>>
Val(o) == o[1]

(***************************************************************************)
(* Arbitrary-precision naturals: little-endian sequences of limbs, without *)
(* most-significant zero limbs; zero is <<>>.                              *)
(***************************************************************************)
LimbBits == 15
LimbBase == 32768

RECURSIVE BStrip(_)
BStrip(x) ==
    IF x = <<>> THEN x
    ELSE IF x[Len(x)] = 0 THEN BStrip(SubSeq(x, 1, Len(x) - 1)) ELSE x

RECURSIVE BFromInt(_)
BFromInt(n) ==
    IF n = 0 THEN <<>> ELSE <<n % LimbBase>> \o BFromInt(n \div LimbBase)

Limb(x, i) == IF i <= Len(x) THEN x[i] ELSE 0

RECURSIVE BAddFrom(_, _, _, _)
BAddFrom(x, y, i, c) ==
    IF i > Len(x) /\ i > Len(y)
    THEN (IF c = 0 THEN <<>> ELSE <<c>>)
    ELSE LET t == Limb(x, i) + Limb(y, i) + c
         IN  <<t % LimbBase>> \o BAddFrom(x, y, i + 1, t \div LimbBase)

BAdd(x, y) == BAddFrom(x, y, 1, 0)

RECURSIVE BSubFrom(_, _, _, _)
BSubFrom(x, y, i, b) ==
    IF i > Len(x) THEN <<>>
    ELSE LET t == Limb(x, i) - Limb(y, i) - b
         IN  <<IF t < 0 THEN t + LimbBase ELSE t>>
                 \o BSubFrom(x, y, i + 1, IF t < 0 THEN 1 ELSE 0)

\* x - y for x >= y
BSub(x, y) == BStrip(BSubFrom(x, y, 1, 0))

RECURSIVE BCmpAt(_, _, _)
BCmpAt(x, y, i) ==
    IF i = 0 THEN 0
    ELSE IF x[i] > y[i] THEN 1
    ELSE IF x[i] < y[i] THEN -1
    ELSE BCmpAt(x, y, i - 1)

\* -1, 0 or 1 as x <, =, > y
BCmp(x, y) ==
    IF Len(x) > Len(y) THEN 1
    ELSE IF Len(x) < Len(y) THEN -1
    ELSE BCmpAt(x, y, Len(x))

RECURSIVE BMulSmallFrom(_, _, _, _)
BMulSmallFrom(x, k, i, c) ==
    IF i > Len(x)
    THEN (IF c = 0 THEN <<>> ELSE <<c>>)
    ELSE LET t == x[i] * k + c
         IN  <<t % LimbBase>> \o BMulSmallFrom(x, k, i + 1, t \div LimbBase)

\* x * k for 0 <= k < LimbBase
BMulSmall(x, k) == BStrip(BMulSmallFrom(x, k, 1, 0))

BShiftLimbs(x, n) == IF x = <<>> THEN <<>> ELSE [i \in 1..n |-> 0] \o x

RECURSIVE BMulFrom(_, _, _)
BMulFrom(x, y, j) ==
    IF j > Len(y) THEN <<>>
    ELSE BAdd(BShiftLimbs(BMulSmall(x, y[j]), j - 1), BMulFrom(x, y, j + 1))

BMul(x, y) == BMulFrom(x, y, 1)

RECURSIVE BDivSmallAt(_, _, _, _, _)
BDivSmallAt(x, d, i, r, q) ==
    IF i = 0 THEN [q |-> BStrip(q), r |-> IF r = 0 THEN <<>> ELSE <<r>>]
    ELSE LET t == r * LimbBase + x[i]
         IN  BDivSmallAt(x, d, i - 1, t % d, <<t \div d>> \o q)

\* quotient and remainder of x by a one-limb d, 0 < d < LimbBase
BDivSmall(x, d) == BDivSmallAt(x, d, Len(x), 0, <<>>)

\* x * 2^n
BShl(x, n) == BShiftLimbs(BMulSmall(x, 2 ^ (n % LimbBits)), n \div LimbBits)

\* floor(x / 2^n)
BShr(x, n) ==
    LET k == n \div LimbBits
    IN  IF k >= Len(x) THEN <<>>
        ELSE BDivSmall(SubSeq(x, k + 1, Len(x)), 2 ^ (n % LimbBits)).q

\* bit i (from 0) of x
BBit(x, i) == (Limb(x, (i \div LimbBits) + 1) \div (2 ^ (i % LimbBits))) % 2

RECURSIVE IntBitLen(_)
IntBitLen(n) == IF n = 0 THEN 0 ELSE 1 + IntBitLen(n \div 2)

BBitLen(x) ==
    IF x = <<>> THEN 0 ELSE LimbBits * (Len(x) - 1) + IntBitLen(x[Len(x)])

RECURSIVE IntTrailingZeros(_)
IntTrailingZeros(n) == IF n % 2 = 1 THEN 0 ELSE 1 + IntTrailingZeros(n \div 2)

RECURSIVE BTrailingZerosFrom(_, _)
BTrailingZerosFrom(x, i) ==
    IF x[i] = 0 THEN LimbBits + BTrailingZerosFrom(x, i + 1)
    ELSE IntTrailingZeros(x[i])

\* number of trailing zero bits of x # 0
BTrailingZeros(x) == BTrailingZerosFrom(x, 1)

\* one step of schoolbook division: the largest limb q with d * q <= r, and
\* r - d * q, for r < d * LimbBase and d normalised (its top limb at least
\* LimbBase / 2): the estimate from the top limbs is at most 2 too large
\* (Knuth, TAOCP 4.3.1, Theorem B)
QuotDigit(r, d) ==
    LET L   == Len(d)
        num == Limb(r, L + 1) * LimbBase + Limb(r, L)
        est == IF num \div d[L] > LimbBase - 1 THEN LimbBase - 1
               ELSE num \div d[L]
    IN  IF BCmp(BMulSmall(d, est), r) <= 0
        THEN [q |-> est, r |-> BSub(r, BMulSmall(d, est))]
        ELSE IF BCmp(BMulSmall(d, est - 1), r) <= 0
        THEN [q |-> est - 1, r |-> BSub(r, BMulSmall(d, est - 1))]
        ELSE [q |-> est - 2, r |-> BSub(r, BMulSmall(d, est - 2))]

RECURSIVE BLongDivAt(_, _, _, _, _)
BLongDivStep(n, d, i, q, s) ==
    IF Len(s.r) + s.q >= 0
    THEN BLongDivAt(n, d, i - 1, s.r, <<s.q>> \o q)
    ELSE [q |-> q, r |-> s.r]

BLongDivAt(n, d, i, r, q) ==
    IF i = 0 THEN [q |-> BStrip(q), r |-> r]
    ELSE BLongDivStep(n, d, i, q, QuotDigit(BStrip(<<n[i]>> \o r), d))

\* quotient and remainder of n by a normalised d
BLongDiv(n, d) == BLongDivAt(n, d, Len(n), <<>>, <<>>)

BDenorm(qr, sh) == [q |-> qr.q, r |-> BShr(qr.r, sh)]

\* quotient and remainder of n by d # 0
BDivMod(n, d) ==
    IF Len(d) = 1 THEN BDivSmall(n, d[1])
    ELSE LET sh == LimbBits - IntBitLen(d[Len(d)])
         IN  BDenorm(BLongDiv(BShl(n, sh), BShl(d, sh)), sh)

(***************************************************************************)
(* binary64 values: (-1)^s * m * 2^e with m odd (canonical), or zero.      *)
(* The values of the model stay far inside the normal range, so overflow   *)
(* and subnormals do not arise.                                            *)
(***************************************************************************)
MantBits == 53

FZero == [s |-> 0, m |-> <<>>, e |-> 0]

FCanon(s, m, e) ==
    IF m = <<>> THEN FZero
    ELSE LET tz == BTrailingZeros(m)
         IN  [s |-> s, m |-> BShr(m, tz), e |-> e + tz]

\* m without its low sh bits, rounded to nearest, ties to even; sticky tells
\* whether a nonzero fraction lies below m
FRoundBy(s, m, e, sticky, sh) ==
    LET guard == BBit(m, sh - 1) = 1
        rest  == sticky \/ BTrailingZeros(m) < sh - 1
        odd   == BBit(m, sh) = 1
    IN  FCanon(s, BAdd(BShr(m, sh), IF guard /\ (rest \/ odd) THEN <<1>> ELSE <<>>),
               e + sh)

\* the exact value (-1)^s * (m + fraction) * 2^e, sticky telling whether the
\* fraction is nonzero, rounded to MantBits bits
FRound(s, m, e, sticky) ==
    IF BBitLen(m) <= MantBits THEN FCanon(s, m, e)
    ELSE FRoundBy(s, m, e, sticky, BBitLen(m) - MantBits)

FFromInt(n) == FCanon(0, BFromInt(n), 0)

FIsZero(x) == x.m = <<>>

FNeg(x) == IF FIsZero(x) THEN x ELSE [x EXCEPT !.s = 1 - x.s]

\* (-1)^sx * mx * 2^e0 + (-1)^sy * my * 2^e0
FAddAligned(sx, mx, sy, my, e0) ==
    LET c == BCmp(mx, my)
    IN  FRound(IF sx = sy \/ c > 0 THEN sx ELSE sy,
               IF sx = sy THEN BAdd(mx, my)
               ELSE IF c >= 0 THEN BSub(mx, my) ELSE BSub(my, mx),
               e0, FALSE)

FAdd(x, y) ==
    LET e0 == IF x.e < y.e THEN x.e ELSE y.e
    IN  FAddAligned(x.s, BShl(x.m, x.e - e0), y.s, BShl(y.m, y.e - e0), e0)

FSub(x, y) == FAdd(x, FNeg(y))

FMul(x, y) ==
    IF FIsZero(x) \/ FIsZero(y) THEN FZero
    ELSE FRound((x.s + y.s) % 2, BMul(x.m, y.m), x.e + y.e, FALSE)

FQuot(s, d, e) == FRound(s, d.q, e, d.r # <<>>)

\* x / y for y # 0
FDiv(x, y) ==
    IF FIsZero(x) THEN FZero
    ELSE LET k == MantBits + 3 + BBitLen(y.m)
         IN  FQuot((x.s + y.s) % 2, BDivMod(BShl(x.m, k), y.m), x.e - y.e - k)

\* x < y, by sign and then by the aligned magnitudes
FLt(x, y) ==
    IF x.s # y.s THEN x.s = 1
    ELSE LET e0 == IF x.e < y.e THEN x.e ELSE y.e
         IN  (IF x.s = 0 THEN 1 ELSE -1)
                 * BCmp(BShl(x.m, x.e - e0), BShl(y.m, y.e - e0)) < 0
FLe(x, y) == ~FLt(y, x)
FGt(x, y) == FLt(y, x)
FGe(x, y) == ~FLt(x, y)

(***************************************************************************)
(* parse_price.  A display string is a sequence of one-character strings   *)
(* over Chars.  Python's float() accepts, over this alphabet, digits with  *)
(* an optional decimal point (at least one digit), and raises ValueError   *)
(* for anything else; the digit strings of the model have at most 15       *)
(* significant digits, so digits / 10^k is the correctly rounded value.    *)
(***************************************************************************)
Digits == <<"0", "1", "2", "3", "4", "5", "6", "7", "8", "9">>
Chars == {Digits[i] : i \in 1..10} \cup {".", ",", " ", "k", "K", "a", "b", "c"}

IsDigit(ch) == \E i \in 1..10 : Digits[i] = ch
DigitVal(ch) == (CHOOSE i \in 1..10 : Digits[i] = ch) - 1

\* str.replace(ch, '')
Remove(str, ch) == SelectSeq(str, LAMBDA c : c # ch)

RECURSIVE BFromDigits(_, _)
BFromDigits(str, acc) ==
    IF str = <<>> THEN acc
    ELSE BFromDigits(Tail(str),
                     BAdd(BMulSmall(acc, 10), BFromInt(DigitVal(Head(str)))))

RECURSIVE BPow10(_)
BPow10(k) == IF k = 0 THEN <<1>> ELSE BMulSmall(BPow10(k - 1), 10)

\* float(str): Some(value), or None for ValueError
FloatOf(str) ==
    LET dots == {i \in 1..Len(str) : str[i] = "."}
        digs == SelectSeq(str, IsDigit)
        frac == IF dots = {} THEN 0
                ELSE Len(str) - (CHOOSE i \in dots : TRUE)
    IN  IF /\ \A i \in 1..Len(str) : IsDigit(str[i]) \/ str[i] = "."
           /\ Cardinality(dots) <= 1
           /\ digs # <<>>
        THEN Some(FDiv(FRound(0, BFromDigits(digs, <<>>), 0, FALSE),
                       FRound(0, BPow10(frac), 0, FALSE)))
        ELSE None

\* float(price_str[:-1]) * 1000, None for ValueError
Thousands(f) == IF IsSome(f) THEN Some(FMul(Val(f), FFromInt(1000))) ELSE None

\* parse_price(price_str) for price_str a string or None
ParsePrice(price_str) ==
    IF ~IsSome(price_str) \/ Val(price_str) = <<>> THEN None
    ELSE LET str == Remove(Remove(Val(price_str), ","), " ")
         IN  IF str # <<>> /\ str[Len(str)] \in {"k", "K"}
             THEN Thousands(FloatOf(SubSeq(str, 1, Len(str) - 1)))
             ELSE FloatOf(str)

\* an argument of parse_price: None, a string or a number
NoneArg == [kind |-> "none", str |-> <<>>, num |-> FZero]
StrArg(str) == [kind |-> "str", str |-> str, num |-> FZero]
NumArg(f) == [kind |-> "num", str |-> <<>>, num |-> f]

Returned(value) == [raised |-> FALSE, value |-> value]
Raised == [raised |-> TRUE, value |-> None]

\* parse_price(a) for any argument: a falsy one (None, '', 0) gives None at
\* line 7, and a number that is not 0 has no attribute replace at line 11
ParsePriceAny(a) ==
    IF a.kind = "num"
    THEN IF FIsZero(a.num) THEN Returned(None) ELSE Raised
    ELSE Returned(ParsePrice(IF a.kind = "none" THEN None ELSE Some(a.str)))

\* Python truth of an optional number: None and 0.0 are false
Truthy(o) == IsSome(o) /\ ~FIsZero(Val(o))

(***************************************************************************)
(* get_crypto_price and its cache.  A symbol is a sequence of characters;  *)
(* price_cache maps each cleaned symbol to None (no entry) or to           *)
(* Some(<<cache_time, price>>).                                            *)
(***************************************************************************)
PRICE_CACHE_EXPIRY == 300

UpperCase == <<"B", "T", "C", "E", "H", "P", "K">>
LowerCase == <<"b", "t", "c", "e", "h", "p", "k">>

\* str.lower() on one character
Lower(ch) ==
    IF \E i \in 1..Len(UpperCase) : UpperCase[i] = ch
    THEN LowerCase[CHOOSE i \in 1..Len(UpperCase) : UpperCase[i] = ch]
    ELSE ch

\* symbol.replace("$", "").lower()
CleanSymbol(symbol) ==
    LET bare == Remove(symbol, "$")
    IN  [i \in 1..Len(bare) |-> Lower(bare[i])]

Symbols ==
    { <<"B", "T", "C">>, <<"b", "t", "c">>, <<"$", "B", "T", "C">>,
      <<"E", "T", "H">> }

CacheKeys == {CleanSymbol(symbol) : symbol \in Symbols}

EmptyCache == [key \in CacheKeys |-> None]

\* what the network does during one call: the request that finds the price
\* (1: the mapped id, 2: the symbol as id, 3: the first search hit, 0: none),
\* the price it gives, and the request that raises (0: none does)
Networks == [found_at : 0..3, price : 1..2, fails_at : 0..4]

\* the requests a call issues before it finds the price or gives up: one
\* per id tried, and two (search, then price) for the search
RequestsUntil(found_at) ==
    IF found_at = 1 THEN 1
    ELSE IF found_at = 2 THEN 2
    ELSE IF found_at = 3 THEN 4
    ELSE 3

Answer(price, requests, cache) ==
    [price |-> price, requests |-> requests, cache |-> cache]

\* lines 42-106: the requests, the cache write of a successful fetch, and
\* the except clause that turns every exception into None
Fetch(key, net, cache, current_time) ==
    IF net.fails_at # 0 /\ net.fails_at <= RequestsUntil(net.found_at)
    THEN Answer(None, net.fails_at, cache)
    ELSE IF net.found_at = 0
    THEN Answer(None, RequestsUntil(0), cache)
    ELSE Answer(Some(net.price), RequestsUntil(net.found_at),
                [cache EXCEPT ![key] = Some(<<current_time, net.price>>)])

\* get_crypto_price without the cache test of lines 35-40
GetCryptoPriceUncached(symbol, net, cache, current_time) ==
    Fetch(CleanSymbol(symbol), net, cache, current_time)

\* get_crypto_price(symbol) at current_time
GetCryptoPrice(symbol, net, cache, current_time) ==
    LET key == CleanSymbol(symbol)
    IN  IF /\ IsSome(cache[key])
           /\ current_time - Val(cache[key])[1] < PRICE_CACHE_EXPIRY
        THEN Answer(Some(Val(cache[key])[2]), 0, cache)
        ELSE Fetch(key, net, cache, current_time)

(***************************************************************************)
(* Signal records.  Every key of the Python dict is an optional field.     *)
(*   coin, position, timeframe, status : strings                           *)
(*   limit_order, take_profit, stop_loss : display strings                 *)
(*   take_profit_targets : the dict's items in insertion order, each       *)
(*       [num |-> tier key, val |-> display string]; the keys are the      *)
(*       decimal strings JSON gives them                                   *)
(*   timestamp : [ok |-> TRUE, t |-> seconds] for a string in the format   *)
(*       "%Y-%m-%d %H:%M:%S", [ok |-> FALSE, t |-> 0] for any other string *)
(*   hit_tp : integer;  exit_date : seconds (a formatted time)             *)
(*   performance, exit_price, unrealized_performance : binary64            *)
(*   risk : the key ingestion writes;  risk_level : the key the completion *)
(*       fan-out reads                                                     *)
(***************************************************************************)
PENDING == "PENDING"
HIT_TARGET == "HIT TARGET"
HIT_STOPLOSS == "HIT STOPLOSS"
EXPIRED == "EXPIRED"

DaySeconds == 86400

\* TIMEFRAME_DURATIONS.get(timeframe, 7), in days
ExpirationDays(timeframe) ==
    IF timeframe = Some("SHORT") THEN 1
    ELSE IF timeframe = Some("MID") THEN 7
    ELSE IF timeframe = Some("LONG") THEN 30
    ELSE 7

\* signal.get("position", "Long").lower() == "long"
IsLong(signal) ==
    IF IsSome(signal.position)
    THEN Val(signal.position) \in {"Long", "long", "LONG"}
    ELSE TRUE

\* int(tp_num) for a key of decimal digits
RECURSIVE IntOf(_, _)
IntOf(str, acc) ==
    IF str = <<>> THEN acc ELSE IntOf(Tail(str), acc * 10 + DigitVal(Head(str)))

\* tp_targets: [num |-> int(tp_num), price |-> parse_price(tp_val)] per tier,
\* empty when the key is absent or the dict is empty
TpTargets(signal) ==
    IF IsSome(signal.take_profit_targets)
    THEN LET items == Val(signal.take_profit_targets)
         IN  [i \in 1..Len(items) |->
                 [num |-> IntOf(items[i].num, 0), price |-> ParsePrice(Some(items[i].val))]]
    ELSE <<>>

\* sorted(items, key=price) (reverse: reverse=True): stable, so equal prices
\* keep their order.  Defined when every price is a number.
RECURSIVE InsertTier(_, _, _)
InsertTier(sorted, t, reverse) ==
    IF sorted = <<>> THEN <<t>>
    ELSE LET last == sorted[Len(sorted)]
             before == IF reverse THEN FGt(Val(t.price), Val(last.price))
                       ELSE FLt(Val(t.price), Val(last.price))
         IN  IF before
             THEN Append(InsertTier(SubSeq(sorted, 1, Len(sorted) - 1), t, reverse), last)
             ELSE Append(sorted, t)

RECURSIVE SortTiersFrom(_, _, _, _)
SortTiersFrom(tiers, i, acc, reverse) ==
    IF i > Len(tiers) THEN acc
    ELSE SortTiersFrom(tiers, i + 1, InsertTier(acc, tiers[i], reverse), reverse)

SortTiers(tiers, reverse) == SortTiersFrom(tiers, 1, <<>>, reverse)

\* whether the price has reached a level: current >= level for a Long
\* position, current <= level for a Short one
Reached(long, current, level) ==
    IF long THEN FGe(current, level) ELSE FLe(current, level)

\* the loop over the sorted tiers: the first tier the price has reached, or
\* None
FirstReached(sorted, current, long) ==
    LET hits == {i \in 1..Len(sorted) : Reached(long, current, Val(sorted[i].price))}
    IN  IF hits = {} THEN None
        ELSE Some(sorted[CHOOSE i \in hits : \A j \in hits : i <= j])

\* the tier loop over the tiers sorted the other way round
HitTpFarthest(tp_targets, current, long) ==
    IF tp_targets = <<>> THEN None
    ELSE FirstReached(SortTiers(tp_targets, long), current, long)

\* hit_tp_num and hit_tp after the loop, None when no tier was reached
HitTp(tp_targets, current, long) ==
    IF tp_targets = <<>> THEN None
    ELSE FirstReached(SortTiers(tp_targets, ~long), current, long)

\* ((a - b) / entry) * 100
Pct(a, b, entry) == FMul(FDiv(FSub(a, b), entry), FFromInt(100))

\* the gain of leaving at price x: ((x - entry) / entry) * 100 for a Long
\* position, ((entry - x) / entry) * 100 for a Short one
Gain(signal, x, entry_price) ==
    Pct(IF IsLong(signal) THEN x ELSE entry_price,
        IF IsLong(signal) THEN entry_price ELSE x, entry_price)

\* 0.2, the default stop-loss fraction
StopLossPct == FDiv(FFromInt(2), FFromInt(10))

\* the default stop-loss with the two directions swapped
DefaultStopLossSwapped(signal, entry_price) ==
    FMul(entry_price, FAdd(FFromInt(1), IF IsLong(signal) THEN StopLossPct
                                           ELSE FNeg(StopLossPct)))

\* entry_price * (1 - stop_loss_pct) for Long, entry_price * (1 + stop_loss_pct)
\* for Short
DefaultStopLoss(signal, entry_price) ==
    FMul(entry_price, FAdd(FFromInt(1), IF IsLong(signal) THEN FNeg(StopLossPct)
                                           ELSE StopLossPct))

\* explicit_stop_loss when it is truthy, the default otherwise
OrDefault(explicit_stop_loss, default) ==
    IF Truthy(explicit_stop_loss) THEN Val(explicit_stop_loss) ELSE default

\* the stop-loss value used when the entry price is known
StopLoss(signal, entry_price) ==
    OrDefault(ParsePrice(signal.stop_loss), DefaultStopLoss(signal, entry_price))

\* the exit fields with hit_tp = 1 written on every exit
ExitTierOne(signal, status, exit_price, entry_price, now) ==
    [signal EXCEPT !.status = Some(status),
                   !.hit_tp = Some(1),
                   !.performance = Some(Gain(signal, exit_price, entry_price)),
                   !.exit_price = Some(exit_price),
                   !.exit_date = Some(now)]

\* signal with status, performance, exit_price and exit_date written
Exit(signal, status, exit_price, entry_price, now) ==
    [signal EXCEPT !.status = Some(status),
                   !.performance = Some(Gain(signal, exit_price, entry_price)),
                   !.exit_price = Some(exit_price),
                   !.exit_date = Some(now)]

\* the if/elif chain with the stop-loss tested before the targets
OutcomeStopFirst(signal, current, entry_price, now, hit, target_price, stop_loss) ==
    IF Reached(~IsLong(signal), current, stop_loss)
    THEN Exit(signal, HIT_STOPLOSS, stop_loss, entry_price, now)
    ELSE IF IsSome(hit) /\ Truthy(Val(hit).price)
    THEN [Exit(signal, HIT_TARGET, Val(Val(hit).price), entry_price, now)
            EXCEPT !.hit_tp = Some(Val(hit).num)]
    ELSE IF /\ Truthy(target_price)
            /\ Reached(IsLong(signal), current, Val(target_price))
    THEN Exit(signal, HIT_TARGET, Val(target_price), entry_price, now)
    ELSE signal

\* lines 58-117: the if/elif chain over the tier hit, the single target and
\* the stop-loss (stop_loss is reached against the position)
Outcome(signal, current, entry_price, now, hit, target_price, stop_loss) ==
    IF IsSome(hit) /\ Truthy(Val(hit).price)
    THEN [Exit(signal, HIT_TARGET, Val(Val(hit).price), entry_price, now)
            EXCEPT !.hit_tp = Some(Val(hit).num)]
    ELSE IF /\ Truthy(target_price)
            /\ Reached(IsLong(signal), current, Val(target_price))
    THEN Exit(signal, HIT_TARGET, Val(target_price), entry_price, now)
    ELSE IF Reached(~IsLong(signal), current, stop_loss)
    THEN Exit(signal, HIT_STOPLOSS, stop_loss, entry_price, now)
    ELSE signal

\* A tier whose price is None makes sorted() or the comparison with it raise
\* TypeError before anything is written.
TierChecks(signal, current, entry_price, now, tp_targets) ==
    IF \E i \in 1..Len(tp_targets) : ~IsSome(tp_targets[i].price)
    THEN [signal |-> signal, raised |-> TRUE, lookup |-> TRUE]
    ELSE [signal |-> Outcome(signal, current, entry_price, now,
                             HitTp(tp_targets, current, IsLong(signal)),
                             ParsePrice(signal.take_profit),
                             StopLoss(signal, entry_price)),
          raised |-> FALSE, lookup |-> TRUE]

\* lines 45-117: the target and stop-loss checks, entered when the entry
\* price is truthy.  The result: the signal, and whether an exception left
\* the call.
PriceChecks(signal, current, entry_price, now) ==
    IF Truthy(entry_price)
    THEN TierChecks(signal, current, Val(entry_price), now, TpTargets(signal))
    ELSE [signal |-> signal, raised |-> FALSE, lookup |-> TRUE]

\* signal_date + timedelta(days=expiration_days)
Deadline(signal) ==
    Val(signal.timestamp).t + ExpirationDays(signal.timeframe) * DaySeconds

\* lines 119-133: datetime.strptime raises for a missing or malformed
\* timestamp; otherwise a signal still PENDING past its horizon expires
ExpiryCheck(frame, current, entry_price, now) ==
    IF frame.raised THEN frame
    ELSE IF ~IsSome(frame.signal.timestamp) \/ ~Val(frame.signal.timestamp).ok
    THEN [frame EXCEPT !.raised = TRUE]
    ELSE IF now > Deadline(frame.signal) /\ frame.signal.status = Some(PENDING)
    THEN [frame EXCEPT !.signal =
            IF Truthy(entry_price)
            THEN Exit(frame.signal, EXPIRED, current, Val(entry_price), now)
            ELSE [frame.signal EXCEPT !.status = Some(EXPIRED)]]
    ELSE frame

\* lines 135-140 writing the field only while the record has none
UnrealizedKept(frame, current, entry_price) ==
    IF /\ ~frame.raised
       /\ frame.signal.status = Some(PENDING)
       /\ Truthy(entry_price)
       /\ frame.signal.unrealized_performance = None
    THEN [frame EXCEPT !.signal.unrealized_performance =
            Some(Gain(frame.signal, current, Val(entry_price)))]
    ELSE frame

\* lines 135-140
Unrealized(frame, current, entry_price) ==
    IF ~frame.raised /\ frame.signal.status = Some(PENDING) /\ Truthy(entry_price)
    THEN [frame EXCEPT !.signal.unrealized_performance =
            Some(Gain(frame.signal, current, Val(entry_price)))]
    ELSE frame

\* lines 26-140, with the price and the parsed entry price at hand
Evaluate(signal, current, entry_price, now) ==
    Unrealized(ExpiryCheck(PriceChecks(signal, current, entry_price, now),
                           current, entry_price, now),
               current, entry_price)

\* check_signal_performance without the early return of lines 14-16
CheckSignalPerformanceUnguarded(signal, price, now) ==
    IF ~IsSome(signal.coin) \/ Val(signal.coin) = ""
    THEN [signal |-> signal, raised |-> FALSE, lookup |-> FALSE]
    ELSE IF ~Truthy(price)
    THEN [signal |-> signal, raised |-> FALSE, lookup |-> TRUE]
    ELSE Evaluate(signal, Val(price), ParsePrice(signal.limit_order), now)

\* check_signal_performance taking an unavailable price for the price 0
CheckSignalPerformanceZeroPrice(signal, price, now) ==
    IF IsSome(signal.status) /\ signal.status # Some(PENDING)
    THEN [signal |-> signal, raised |-> FALSE, lookup |-> FALSE]
    ELSE IF ~IsSome(signal.coin) \/ Val(signal.coin) = ""
    THEN [signal |-> signal, raised |-> FALSE, lookup |-> FALSE]
    ELSE Evaluate(signal, IF IsSome(price) THEN Val(price) ELSE FZero,
                  ParsePrice(signal.limit_order), now)

\* check_signal_performance(signal) at time now, the price oracle answering
\* price (None: unavailable).  The result: the signal as the call leaves
\* it, whether an exception escaped, whether get_crypto_price was called.
CheckSignalPerformance(signal, price, now) ==
    IF IsSome(signal.status) /\ signal.status # Some(PENDING)
    THEN [signal |-> signal, raised |-> FALSE, lookup |-> FALSE]
    ELSE IF ~IsSome(signal.coin) \/ Val(signal.coin) = ""
    THEN [signal |-> signal, raised |-> FALSE, lookup |-> FALSE]
    ELSE IF ~Truthy(price)
    THEN [signal |-> signal, raised |-> FALSE, lookup |-> TRUE]
    ELSE Evaluate(signal, Val(price), ParsePrice(signal.limit_order), now)

(***************************************************************************)
(* The store and the batch updater.                                        *)
(***************************************************************************)
VARIABLES
    signals,      \* signals_data["signals"]
    now,          \* the wall clock, in seconds
    pc,           \* update_all_signals_performance: "idle", "run" (in the
                  \* loop), "done" (returned), "raised" (left by an exception)
    idx,          \* the loop's position in signals
    updated,      \* the local variable updated, the return value once done
    looked,       \* the signals get_crypto_price was called for in this pass
    unavailable,  \* those of them for which it answered None
    before,       \* the store as the running (or last) pass found it
    disk,         \* the signals last written to SIGNALS_FILE
    arg,          \* the argument of a function called on its own
    ret,          \* what the call gave, None before it
    users,        \* user_data["users"], its items in insertion order
    settings,     \* user_data["settings"], per chat id, None where absent
    coins,        \* coins_data["coins"]
    sent,         \* the notifications sent to users, in order
    handled,      \* the last group message handled and how the handler ended
    job,          \* periodic_signal_check: None, or its phase and loop state
    subscribers,  \* user_data["subscribers"], the list /stat counts
    next_t,       \* the time of the next run of the repeating job
    price_cache   \* the price cache of price_service

vars == <<signals, now, pc, idx, updated, looked, unavailable, before, disk,
          arg, ret, users, settings, coins, sent, handled, job, subscribers,
          next_t, price_cache>>

\* the bot's state around the store
bot == <<users, settings, coins, sent, handled, job, subscribers, next_t>>

\* the variables the batch updater does not touch
others == <<arg, ret, bot, price_cache>>

\* no user, no message and no timer job
BotIdle ==
    /\ users = <<>>
    /\ settings = <<>>
    /\ coins = [is_list |-> TRUE, seen |-> {}]
    /\ sent = <<>>
    /\ handled = None
    /\ job = None
    /\ subscribers = <<>>
    /\ next_t = 0

\* no function is being called on its own
NoCall == arg = NoneArg /\ ret = None

\* display strings
Str80k == <<"8", "0", "k">>
Str90k == <<"9", "0", "k">>
Str95k == <<"9", "5", "k">>
Str85k == <<"8", "5", "k">>
Str75k == <<"7", "5", "k">>
Str90000 == <<"9", "0", "0", "0", "0">>
Str95000 == <<"9", "5", ",", "0", "0", "0">>
Str3 == <<"3">>
Str110k == <<"1", "1", "0", "k">>
Str0 == <<"0">>
StrBad == <<"a", "b", "c">>

Tier(num, val) == [num |-> num, val |-> val]
Stamp(t) == Some([ok |-> TRUE, t |-> t])
BadStamp == Some([ok |-> FALSE, t |-> 0])

\* how many seconds past a horizon the clock is read
MaxLate == 1
\* the largest number of signals in the store
MaxSignals == 2

TimePoints == {0, DaySeconds} \cup {DaySeconds + d : d \in 1..MaxLate}

\* a stored Long signal on BTC entered at 80k, created at time 0, and the
\* variants the model starts from
Plain ==
    [coin |-> Some("BTC"), position |-> Some("Long"),
     limit_order |-> Some(Str80k), take_profit |-> None,
     take_profit_targets |-> None, stop_loss |-> None,
     timeframe |-> Some("SHORT"), timestamp |-> Stamp(0),
     status |-> Some(PENDING), hit_tp |-> None, performance |-> None,
     exit_price |-> None, exit_date |-> None,
     unrealized_performance |-> None, risk |-> None, risk_level |-> None]

\* a SHORT-timeframe signal created two days ago
Overdue ==
    [Plain EXCEPT !.take_profit = Some(Str90k),
                  !.timestamp = Stamp(0 - 2 * DaySeconds)]

\* Long, entry 80000, tiers {1: 90000, 2: 95000}
TierExample ==
    [Plain EXCEPT !.take_profit = Some(Str90000),
                  !.take_profit_targets =
                      Some(<<Tier(<<"1">>, Str90000), Tier(<<"2">>, Str95000)>>)]

\* Long, the tier 90k, and a stop-loss above it
StopAboveTarget ==
    [Plain EXCEPT !.take_profit_targets = Some(<<Tier(<<"1">>, Str90k)>>),
                  !.stop_loss = Some(Str110k)]

\* Short, entry 90000, no explicit stop-loss
ShortExample ==
    [Plain EXCEPT !.position = Some("Short"), !.limit_order = Some(Str90k)]

LongSignals ==
    { TierExample,
      [Plain EXCEPT !.take_profit_targets =
                        Some(<<Tier(<<"1">>, Str95k), Tier(<<"2">>, Str90k)>>),
                    !.stop_loss = Some(Str75k),
                    !.timeframe = Some("MID"),
                    !.timestamp = Stamp(0 - 6 * DaySeconds)],
      [Plain EXCEPT !.take_profit = Some(Str90k),
                    !.timeframe = Some("LONG"),
                    !.timestamp = Stamp(0 - 29 * DaySeconds),
                    !.status = None],
      StopAboveTarget,
      [Plain EXCEPT !.take_profit = Some(Str90k),
                    !.take_profit_targets =
                        Some(<<Tier(<<"1">>, Str95k), Tier(<<"2">>, Str110k)>>)],
      [Plain EXCEPT !.stop_loss = Some(Str0)],
      Overdue,
      [Plain EXCEPT !.position = None,
                    !.take_profit = Some(StrBad),
                    !.stop_loss = Some(StrBad),
                    !.timeframe = Some("WEEK"),
                    !.timestamp = Stamp(0 - 6 * DaySeconds)],
      [Plain EXCEPT !.coin = Some("XRP"), !.limit_order = Some(Str3),
                    !.timeframe = None,
                    !.timestamp = Stamp(0 - 6 * DaySeconds)] }

ShortSignals ==
    { ShortExample,
      [Plain EXCEPT !.position = Some("Short"), !.limit_order = Some(Str90k),
                    !.take_profit = Some(Str85k),
                    !.take_profit_targets =
                        Some(<<Tier(<<"1">>, Str85k), Tier(<<"2">>, Str80k)>>),
                    !.stop_loss = Some(Str95k),
                    !.timeframe = Some("MID"),
                    !.timestamp = Stamp(0 - 6 * DaySeconds)],
      [Plain EXCEPT !.position = Some("Short"), !.limit_order = Some(Str90k),
                    !.take_profit_targets =
                        Some(<<Tier(<<"1">>, Str80k), Tier(<<"2">>, Str85k)>>),
                    !.timeframe = Some("LONG"),
                    !.timestamp = Stamp(0 - 29 * DaySeconds)],
      [Plain EXCEPT !.position = Some("Short"), !.limit_order = Some(Str90k),
                    !.take_profit = Some(Str85k),
                    !.take_profit_targets = Some(<<Tier(<<"1">>, Str80k)>>)],
      [Plain EXCEPT !.position = Some("Short"), !.coin = Some("XRP"),
                    !.limit_order = Some(Str3)] }

\* records with a malformed or missing field
OddSignals ==
    { [Plain EXCEPT !.limit_order = Some(StrBad), !.take_profit = Some(Str90k)],
      [Plain EXCEPT !.limit_order = None, !.timeframe = Some("MID"),
                    !.timestamp = Stamp(0 - 6 * DaySeconds)],
      [Plain EXCEPT !.take_profit_targets =
                        Some(<<Tier(<<"1">>, Str90k), Tier(<<"2">>, StrBad)>>)],
      [Plain EXCEPT !.take_profit = Some(Str90k), !.timestamp = BadStamp],
      [Plain EXCEPT !.timestamp = None],
      [Plain EXCEPT !.coin = None] }

Fixtures == LongSignals \cup ShortSignals \cup OddSignals

\* the signals stored behind the first one: on ETH, entered at 80 with the
\* target 90, one of them with a malformed timestamp
Str80 == <<"8", "0">>
Str90 == <<"9", "0">>
Companions ==
    { [Plain EXCEPT !.coin = Some("ETH"), !.limit_order = Some(Str80),
                    !.take_profit = Some(Str90)],
      [Plain EXCEPT !.coin = Some("ETH"), !.limit_order = Some(Str80),
                    !.take_profit = Some(Str90), !.timestamp = BadStamp] }

\* the first signals of the stores that hold more than one
Leaders ==
    { [Plain EXCEPT !.take_profit = Some(Str90k)], Overdue } \cup OddSignals

Stores ==
    {<<f>> : f \in Fixtures}
    \cup {<<f>> \o cs : f \in Leaders,
                        cs \in UNION {[1..k -> Companions] : k \in 1..(MaxSignals - 1)}}

\* what the price oracle can answer for a coin: unavailable, or a price
PriceOutcomes(coin) ==
    IF coin = Some("XRP")
    THEN {None} \cup {Some(FFromInt(n)) : n \in {2, 3, 4}}
    ELSE IF coin = Some("ETH")
    THEN {None} \cup {Some(FFromInt(n)) : n \in {85, 100}}
    ELSE {None} \cup {Some(FFromInt(n)) : n \in {60000, 85000, 92000, 109000}}

Init ==
    /\ signals \in Stores
    /\ now = 0
    /\ pc = "idle"
    /\ idx = 1
    /\ updated = FALSE
    /\ looked = {}
    /\ unavailable = {}
    /\ before = signals
    /\ disk = signals
    /\ NoCall
    /\ BotIdle
    /\ price_cache = EmptyCache

\* a caller (the timer job, /signals, /performance) calls
\* update_all_signals_performance
StartPass ==
    /\ pc # "run"
    /\ pc' = "run"
    /\ idx' = 1
    /\ updated' = FALSE
    /\ looked' = {}
    /\ unavailable' = {}
    /\ before' = signals
    /\ UNCHANGED <<signals, now, disk>>

\* every signal taken for PENDING, whatever its status
WithStatusStale(signal) == [signal EXCEPT !.status = Some(PENDING)]

\* if "status" not in signal: signal["status"] = PENDING
WithStatus(signal) ==
    IF IsSome(signal.status) THEN signal ELSE [signal EXCEPT !.status = Some(PENDING)]

\* a refresh counted as a change: any difference between the records
StatusChangedOrRefreshed(signal, r) == r.signal # signal

\* if updated_signal.get("status") != original_status
StatusChanged(signal, r) == r.signal.status # signal.status

\* the loop body for a PENDING signal, r what check_signal_performance did
Checked(signal, price, r) ==
    /\ signals' = [signals EXCEPT ![idx] = r.signal]
    /\ looked' = IF r.lookup THEN looked \cup {idx} ELSE looked
    /\ unavailable' = IF r.lookup /\ price = None
                      THEN unavailable \cup {idx} ELSE unavailable
    /\ IF r.raised
       THEN pc' = "raised" /\ UNCHANGED <<idx, updated>>
       ELSE /\ idx' = idx + 1
            /\ updated' = (updated \/ StatusChanged(signal, r))
            /\ pc' = pc

\* the loop body with neither status guard (lines 14 and 153): every
\* signal with a price is evaluated again
LoopStepUnguarded(signal, price) ==
    Checked(signal, price,
            IF Truthy(price)
            THEN Evaluate(signal, Val(price), ParsePrice(signal.limit_order), now)
            ELSE [signal |-> signal, raised |-> FALSE, lookup |-> TRUE])

\* one iteration of the loop over signals_data["signals"]
LoopStep(signal, price) ==
    IF signal.status = Some(PENDING)
    THEN Checked(signal, price, CheckSignalPerformance(signal, price, now))
    ELSE /\ signals' = [signals EXCEPT ![idx] = signal]
         /\ idx' = idx + 1
         /\ UNCHANGED <<pc, updated, looked, unavailable>>

Step ==
    /\ pc = "run"
    /\ idx <= Len(signals)
    /\ \E price \in PriceOutcomes(signals[idx].coin) :
           LoopStep(WithStatus(signals[idx]), price)
    /\ UNCHANGED <<now, before, disk>>

\* save_signals_data(): json.dump of the store to SIGNALS_FILE; an error of
\* open or of the write is logged and swallowed (written = FALSE)
SaveSignalsData(written) == IF written THEN signals ELSE disk

\* after the loop: save_signals_data() if updated, then return updated
EndPass ==
    /\ pc = "run"
    /\ idx > Len(signals)
    /\ pc' = "done"
    /\ IF updated
       THEN \E written \in BOOLEAN : disk' = SaveSignalsData(written)
       ELSE disk' = disk
    /\ UNCHANGED <<signals, now, idx, updated, looked, unavailable, before>>

\* time passes
Tick ==
    /\ \E t \in TimePoints : t > now /\ now' = t
    /\ UNCHANGED <<signals, pc, idx, updated, looked, unavailable, before, disk>>

Next ==
    \/ StartPass /\ UNCHANGED others
    \/ Step /\ UNCHANGED others
    \/ EndPass /\ UNCHANGED others
    \/ Tick /\ UNCHANGED others

Spec == Init /\ [][Next]_vars

(***************************************************************************)
(* parse_price called on its own.                                          *)
(***************************************************************************)
\* the longest string drawn freely from PriceChars
MaxLen == 3

PriceChars == {"1", "5", "0", ".", ",", " ", "k", "K", "a"}

Strings(n) == UNION {[1..k -> PriceChars] : k \in 0..n}

PriceArgs ==
    {NoneArg}
    \cup {NumArg(FFromInt(n)) : n \in {0, 88}}
    \cup {NumArg(Val(FloatOf(<<"1", "2", "3", "4", ".", "5">>)))}
    \cup {StrArg(str) : str \in Strings(MaxLen)}
    \cup {StrArg(<<"8", "8", "k">>), StrArg(<<"1", "0", "0", "K">>),
          StrArg(<<"1", ",", "2", "3", "4", ".", "5">>)}

\* no pass is running and the store is empty
BatchIdle ==
    /\ signals = <<>>
    /\ now = 0
    /\ pc = "idle"
    /\ idx = 1
    /\ updated = FALSE
    /\ looked = {}
    /\ unavailable = {}
    /\ before = <<>>
    /\ disk = <<>>

batch == <<signals, now, pc, idx, updated, looked, unavailable, before, disk>>

ParseInit ==
    /\ BatchIdle
    /\ BotIdle
    /\ price_cache = EmptyCache
    /\ arg \in PriceArgs
    /\ ret = None

CallParsePrice ==
    /\ ret = None
    /\ ret' = Some(ParsePriceAny(arg))
    /\ UNCHANGED <<arg, batch, bot, price_cache>>

ParseNext == CallParsePrice

ParseSpec == ParseInit /\ [][ParseNext]_vars

(***************************************************************************)
(* Users and their settings.                                               *)
(***************************************************************************)
\* the number of chats that talk to the bot
MaxUsers == 2

ChatIds == 1..MaxUsers

\* the record start, subscribe and coins_command create
NewUser(c) == [chat_id |-> c, subscribed |-> TRUE, favorite_coins |-> {}]

Known(c) == \E i \in 1..Len(users) : users[i].chat_id = c

\* the place of user_data["users"][str(chat_id)]
Pos(c) == CHOOSE i \in 1..Len(users) : users[i].chat_id = c

\* the settings used for a user without an entry in user_data["settings"]
DefaultSettings ==
    [notify_all_signals |-> TRUE, notify_favorites_only |-> FALSE,
     risk_filter |-> "ALL", timeframe_filter |-> "ALL"]

SettingsOf(c) == IF IsSome(settings[c]) THEN Val(settings[c]) ELSE DefaultSettings

\* the entries the settings menu can leave for a user
SettingsChoices ==
    { None,
      Some([DefaultSettings EXCEPT !.notify_all_signals = FALSE,
                                   !.notify_favorites_only = TRUE]),
      Some([DefaultSettings EXCEPT !.risk_filter = "HIGH"]) }

\* coin in favorite_coins if coin else False
IsFavorite(user_info, coin) == IsSome(coin) /\ Val(coin) \in user_info.favorite_coins

\* the notification preferences and the risk and timeframe filters
Wanted(st, is_favorite, risk, timeframe) ==
    /\ \/ st.notify_all_signals /\ ~st.notify_favorites_only
       \/ st.notify_favorites_only /\ is_favorite
    /\ st.risk_filter = "ALL" \/ risk = Some(st.risk_filter)
    /\ st.timeframe_filter = "ALL" \/ timeframe = Some(st.timeframe_filter)

\* a fan-out that takes every user for a subscriber
AnyoneSubscribed(user_info) == TRUE

\* user_info.get("subscribed", False)
IsSubscribed(user_info) == user_info.subscribed

\* if str(chat_id) not in user_data["subscribers"]: append it
Enlisted(list, c) ==
    IF \E k \in 1..Len(list) : list[k] = c THEN list ELSE Append(list, c)

\* list.remove(x), for a list that holds x: its first occurrence goes
RemoveFirst(list, x) ==
    LET k == CHOOSE i \in 1..Len(list) :
                 list[i] = x /\ \A j \in 1..(i - 1) : list[j] # x
    IN  SubSeq(list, 1, k - 1) \o SubSeq(list, k + 1, Len(list))

\* /start: a new chat gets a record and a place in the subscribers list; a
\* known one only a reply
Start(c) ==
    /\ ~Known(c)
    /\ users' = Append(users, NewUser(c))
    /\ subscribers' = Enlisted(subscribers, c)
    /\ UNCHANGED <<batch, arg, ret, settings, coins, sent, handled, job,
                   next_t, price_cache>>

\* /subscribe
Subscribe(c) ==
    /\ users' = IF Known(c) THEN [users EXCEPT ![Pos(c)].subscribed = TRUE]
                ELSE Append(users, NewUser(c))
    /\ subscribers' = Enlisted(subscribers, c)
    /\ UNCHANGED <<batch, arg, ret, settings, coins, sent, handled, job,
                   next_t, price_cache>>

\* /unsubscribe: a chat without a record only gets a reply
Unsubscribe(c) ==
    /\ Known(c)
    /\ users' = [users EXCEPT ![Pos(c)].subscribed = FALSE]
    /\ subscribers' = IF \E k \in 1..Len(subscribers) : subscribers[k] = c
                      THEN RemoveFirst(subscribers, c) ELSE subscribers
    /\ UNCHANGED <<batch, arg, ret, settings, coins, sent, handled, job,
                   next_t, price_cache>>

\* /coins ETH (found: the price lookup answered) and /coins remove ETH; a
\* new chat gets a record, and the subscribers list is left alone
Coins(c, remove, found) ==
    LET table == IF Known(c) THEN users ELSE Append(users, NewUser(c))
        i     == CHOOSE k \in 1..Len(table) : table[k].chat_id = c
        favs  == table[i].favorite_coins
    IN  /\ users' = [table EXCEPT ![i].favorite_coins =
                        IF remove THEN favs \ {"ETH"}
                        ELSE IF found THEN favs \cup {"ETH"} ELSE favs]
        /\ UNCHANGED <<batch, arg, ret, settings, coins, sent, handled, job,
                       subscribers, next_t, price_cache>>

(***************************************************************************)
(* Ingestion: handle_message.  A group message is represented by what      *)
(* extract_signal_data finds in its text.                                  *)
(***************************************************************************)
Messages ==
    [tagged : BOOLEAN,             \* "@bot" is among the mentions
     short_word : BOOLEAN,         \* the first SHORT timeframe pattern matches
     coin : {None, Some("BTC")},
     take_profit : {None, Some(Str90k)}]

\* extract_signal_data(text):  the second timeframe pattern,
\* r'\btimeframe[\s-:]+short\b', is not a regular expression (bad character
\* range), so re.search raises re.error unless the first pattern has matched
\* already; otherwise eight values are returned.
ExtractSignalData(m) ==
    IF ~m.short_word
    THEN [raised |-> TRUE, values |-> <<>>]
    ELSE [raised |-> FALSE,
          values |-> << m.coin,                                       \* coin
                        Some("SHORT"),                                \* timeframe
                        Some("MEDIUM"),                               \* risk_level
                        IF IsSome(m.coin) THEN Some(Str80k) ELSE None, \* limit_order
                        m.take_profit,                                \* take_profit
                        IF IsSome(m.coin) THEN Some("Long") ELSE None, \* position
                        None,                                         \* stop_loss
                        [take_profit_targets |->
                            IF IsSome(m.take_profit)
                            THEN <<Tier(<<"1">>, Val(m.take_profit))>>
                            ELSE <<>>] >>]

\* how a handler run ended: "ignored", "warned", "stored", or the exception
\* that left it; replies are the messages it posted in the group
Ended(m, outcome, replies) ==
    Some([msg |-> m, outcome |-> outcome, replies |-> replies])

\* the record handle_message builds: only truthy values become keys
NewSignal(coin, timeframe, risk_level, limit_order, take_profit, position) ==
    [Plain EXCEPT !.coin = coin, !.timeframe = timeframe, !.risk = risk_level,
                  !.limit_order = limit_order, !.take_profit = take_profit,
                  !.position = position, !.timestamp = Stamp(now),
                  !.status = None]

\* the users the new signal is forwarded to
Forwarded(coin, risk_level, timeframe) ==
    {i \in 1..Len(users) :
        /\ Wanted(SettingsOf(users[i].chat_id), IsFavorite(users[i], coin),
                  risk_level, timeframe)
        /\ IsSubscribed(users[i])}

RECURSIVE ForwardFrom(_, _, _, _)
ForwardFrom(i, to, coin, acc) ==
    IF i > Len(users) THEN acc
    ELSE IF i \notin to THEN ForwardFrom(i + 1, to, coin, acc)
    ELSE ForwardFrom(i + 1, to, coin,
             acc \o <<[chat_id |-> users[i].chat_id, kind |-> "signal",
                       signal |-> Len(signals) + 1]>>
                 \o (IF IsFavorite(users[i], coin)
                     THEN <<[chat_id |-> users[i].chat_id, kind |-> "favorite",
                             signal |-> Len(signals) + 1]>>
                     ELSE <<>>))

\* lines 51-245 with the six values at hand
Ingest(m, coin, timeframe, risk_level, limit_order, take_profit, position) ==
    IF ~IsSome(coin)
    THEN /\ handled' = Ended(m, "warned", <<"no coin symbol">>)
         /\ UNCHANGED <<signals, disk, coins, sent>>
    ELSE IF coins.is_list
    THEN \* coins_data["coins"][coin] = {...} on the list of config.py
         /\ handled' = Ended(m, "TypeError", <<"signal detected">>)
         /\ UNCHANGED <<signals, disk, coins, sent>>
    ELSE /\ coins' = [coins EXCEPT !.seen = @ \cup {Val(coin)}]
         /\ signals' = Append(signals,
                NewSignal(coin, timeframe, risk_level, limit_order,
                          take_profit, position))
         /\ \E written \in BOOLEAN :
                disk' = IF written THEN signals' ELSE disk
         /\ sent' = ForwardFrom(1, Forwarded(coin, risk_level, timeframe),
                                coin, sent)
         /\ handled' = Ended(m, "stored", <<"signal detected", "forwarded">>)

\* handle_message for a text message in a group
HandleMessage(m) ==
    /\ LET e == ExtractSignalData(m)
       IN  IF ~m.tagged
           THEN /\ handled' = Ended(m, "ignored", <<>>)
                /\ UNCHANGED <<signals, disk, coins, sent>>
           ELSE IF e.raised
           THEN /\ handled' = Ended(m, "re.error", <<>>)
                /\ UNCHANGED <<signals, disk, coins, sent>>
           ELSE IF Len(e.values) # 6
           THEN \* coin, timeframe, risk_level, limit_order, take_profit,
                \* position = ...: too many values to unpack
                /\ handled' = Ended(m, "ValueError", <<>>)
                /\ UNCHANGED <<signals, disk, coins, sent>>
           ELSE Ingest(m, e.values[1], e.values[2], e.values[3], e.values[4],
                       e.values[5], e.values[6])
    /\ UNCHANGED <<now, pc, idx, updated, looked, unavailable, before,
                   arg, ret, users, settings, job, subscribers, next_t,
                   price_cache>>

\* coins_data["coins"] as config.py creates it: an empty list
CoinsList == [is_list |-> TRUE, seen |-> {}]

\* the user tables a message can find
UserTables ==
    { <<>>,
      <<NewUser(1)>>,
      <<[NewUser(1) EXCEPT !.subscribed = FALSE]>>,
      <<[NewUser(1) EXCEPT !.favorite_coins = {"BTC"}], NewUser(2)>>,
      <<[NewUser(1) EXCEPT !.subscribed = FALSE, !.favorite_coins = {"BTC"}],
        NewUser(2)>> }

\* a stored signal with the risk ingestion found, under both keys
Risky(signal, risk) == [signal EXCEPT !.risk = Some(risk), !.risk_level = Some(risk)]

IngestStores ==
    { <<>>,
      <<Risky([Plain EXCEPT !.take_profit = Some(Str90k)], "MEDIUM")>> }

IngestInit ==
    /\ signals \in IngestStores
    /\ now = 0
    /\ pc = "idle"
    /\ idx = 1
    /\ updated = FALSE
    /\ looked = {}
    /\ unavailable = {}
    /\ before = signals
    /\ disk = signals
    /\ NoCall
    /\ users \in UserTables
    /\ settings \in [ChatIds -> SettingsChoices]
    /\ coins = CoinsList
    /\ sent = <<>>
    /\ handled = None
    /\ job = None
    /\ subscribers = <<>>
    /\ next_t = 0
    /\ price_cache = EmptyCache

IngestNext == \E m \in Messages : HandleMessage(m)

IngestSpec == IngestInit /\ [][IngestNext]_vars

(***************************************************************************)
(* extract_signal_data: the take-profit targets and the default risk       *)
(* level.  A text is a sequence of characters whose white space is the     *)
(* space; the regular expressions are matched as re matches them (leftmost,*)
(* greedy, giving characters back when the rest of the pattern fails).     *)
(***************************************************************************)
Punctuation == {" ", ":", "=", "@", ".", ",", "-", "$"}

\* the character at a place of the text, "" outside of it
At(text, i) == IF i \in 1..Len(text) THEN text[i] ELSE ""

\* \w
IsWordChar(ch) == ch # "" /\ ch \notin Punctuation

\* \b at the place before character i
Boundary(text, i) == IsWordChar(At(text, i)) # IsWordChar(At(text, i - 1))

\* \d* from i on: the place after the digits
RECURSIVE DigitsEnd(_, _)
DigitsEnd(text, i) == IF IsDigit(At(text, i)) THEN DigitsEnd(text, i + 1) ELSE i

\* \s* from i on: the place after the spaces
RECURSIVE SpacesEnd(_, _)
SpacesEnd(text, i) == IF At(text, i) = " " THEN SpacesEnd(text, i + 1) ELSE i

\* the word stands at place i (re.IGNORECASE)
StartsAt(text, i, word) ==
    /\ i + Len(word) - 1 <= Len(text)
    /\ \A k \in 1..Len(word) : Lower(text[i + k - 1]) = word[k]

\* (?:w1|w2|...) at place i: the place after the first alternative that
\* stands there, 0 when none does
WordEnd(text, i, words) ==
    LET found == {n \in 1..Len(words) : StartsAt(text, i, words[n])}
    IN  IF found = {} THEN 0
        ELSE i + Len(words[CHOOSE n \in found : \A m \in found : n <= m])

\* (?:,\d+)* from j on
RECURSIVE GroupsEnd(_, _)
GroupsEnd(text, j) ==
    IF At(text, j) = "," /\ IsDigit(At(text, j + 1))
    THEN GroupsEnd(text, DigitsEnd(text, j + 1))
    ELSE j

\* (\d+(?:,\d+)*(?:\.\d+)?[kK]?) at place i: the place after it, 0 when no
\* digit stands at i
\* (?:\.\d+)? from a on
FractionEnd(text, a) ==
    IF At(text, a) = "." /\ IsDigit(At(text, a + 1))
    THEN DigitsEnd(text, a + 1) ELSE a

\* [kK]? from b on
SuffixEnd(text, b) == IF At(text, b) \in {"k", "K"} THEN b + 1 ELSE b

NumberEnd(text, i) ==
    IF ~IsDigit(At(text, i)) THEN 0
    ELSE SuffixEnd(text, FractionEnd(text, GroupsEnd(text, DigitsEnd(text, i))))

\* the characters from place i up to, not including, place j
Slice(text, i, j) == SubSeq(text, i, j - 1)

TpWords == << <<"t", "p">>, <<"t", "a", "k", "e", " ", "p", "r", "o", "f", "i", "t">>,
              <<"t", "a", "r", "g", "e", "t">>, <<"t", ".", "p", ".">> >>

PriceTargetWords ==
    TpWords \o << <<"p", "r", "i", "c", "e", " ", "t", "a", "r", "g", "e", "t">> >>

SeparatorWords ==
    << <<"i", "s">>, <<"a", "r", "e">>, <<"a", "t">>, <<"@">>, <<":">>, <<"=">> >>

\* \s*(?:is|are|at|@|:|=|\s+)?\s* from i on
OrElse(b, a) == IF b = 0 THEN a ELSE b

SeparatorEnd(text, a) == OrElse(WordEnd(text, a, SeparatorWords), a)

AfterSeparator(text, i) == SpacesEnd(text, SeparatorEnd(text, SpacesEnd(text, i)))

\* tp_numbered_pattern at place i.  (\d+) first takes the whole run of
\* digits; when no number follows it, it gives its last digit back and that
\* digit starts the value.
\* the match whose group 1 is text[j..d) and whose group 2 is text[c..end)
NumberedMatch(text, j, d, c, end) ==
    Some([tp_number |-> IntOf(Slice(text, j, d), 0),
          tp_value |-> Remove(Slice(text, c, end), ","),
          end |-> end])

\* the digits text[j..e) stand after the keyword, c is the place after the
\* separator that follows them
NumberedValue(text, j, e, c) ==
    IF e = j THEN None
    ELSE IF NumberEnd(text, c) # 0
    THEN NumberedMatch(text, j, e, c, NumberEnd(text, c))
    ELSE IF e - j >= 2
    THEN NumberedMatch(text, j, e - 1, e - 1, NumberEnd(text, e - 1))
    ELSE None

NumberedDigits(text, j, e) == NumberedValue(text, j, e, AfterSeparator(text, e))

NumberedKeyword(text, k) ==
    IF k = 0 THEN None
    ELSE NumberedDigits(text, SpacesEnd(text, k), DigitsEnd(text, SpacesEnd(text, k)))

NumberedAt(text, i) ==
    IF ~Boundary(text, i) THEN None
    ELSE NumberedKeyword(text, WordEnd(text, i, TpWords))

\* take_profit_dict[key] = value
Put(dict, key, value) ==
    [n \in DOMAIN dict \cup {key} |-> IF n = key THEN value ELSE dict[n]]

\* for match in re.finditer(tp_numbered_pattern, text, re.IGNORECASE)
RECURSIVE NumberedFrom(_, _, _)
NumberedFrom(text, i, dict) ==
    IF i > Len(text) THEN dict
    ELSE IF IsSome(NumberedAt(text, i))
    THEN NumberedFrom(text, Val(NumberedAt(text, i)).end,
                      Put(dict, Val(NumberedAt(text, i)).tp_number,
                          Val(NumberedAt(text, i)).tp_value))
    ELSE NumberedFrom(text, i + 1, dict)

\* the place of the first digit from i on, 0 when there is none
RECURSIVE FirstDigit(_, _)
FirstDigit(text, i) ==
    IF i > Len(text) THEN 0
    ELSE IF IsDigit(text[i]) THEN i ELSE FirstDigit(text, i + 1)

\* the first of tp_patterns at place i: keyword, separator, number
\* group 1 of a match: the number that starts at place c
NumberAt(text, c) ==
    IF c # 0 /\ NumberEnd(text, c) # 0
    THEN Some(Remove(Slice(text, c, NumberEnd(text, c)), ","))
    ELSE None

MainTpAt(text, i) ==
    IF WordEnd(text, i, PriceTargetWords) = 0 THEN None
    ELSE NumberAt(text, AfterSeparator(text, WordEnd(text, i, PriceTargetWords)))

\* the second of tp_patterns at place i: keyword, [^0-9]*, number
LooseTpAt(text, i) ==
    IF WordEnd(text, i, TpWords) = 0 THEN None
    ELSE NumberAt(text, FirstDigit(text, WordEnd(text, i, TpWords)))

\* re.search with the first of tp_patterns: the leftmost match from i on
RECURSIVE SearchMainTp(_, _)
SearchMainTp(text, i) ==
    IF i > Len(text) THEN None
    ELSE IF IsSome(MainTpAt(text, i)) THEN MainTpAt(text, i)
    ELSE SearchMainTp(text, i + 1)

\* re.search with the second of tp_patterns
RECURSIVE SearchLooseTp(_, _)
SearchLooseTp(text, i) ==
    IF i > Len(text) THEN None
    ELSE IF IsSome(LooseTpAt(text, i)) THEN LooseTpAt(text, i)
    ELSE SearchLooseTp(text, i + 1)

\* the loop over tp_patterns, which stops at the first pattern that matches.
\* The patterns after the second match only where the first one does, or
\* after the word "reach", which the texts here do not contain.
GeneralTp(text) ==
    IF IsSome(SearchMainTp(text, 1)) THEN SearchMainTp(text, 1)
    ELSE SearchLooseTp(text, 1)

\* sorted(take_profit_dict.items())[0][1]
LowestTier(dict) == dict[CHOOSE n \in DOMAIN dict : \A m \in DOMAIN dict : n <= m]

\* lines 225-271: take_profit and take_profit_dict
\* lines 258-271, general what the loop over tp_patterns found
WithGeneral(dict, general) ==
    [take_profit |-> IF DOMAIN dict # {} THEN Some(LowestTier(dict)) ELSE general,
     take_profit_targets |-> dict]

\* if 1 not in take_profit_dict: take_profit_dict[1] = take_profit
AsTierOne(numbered, general) ==
    IF IsSome(general) /\ 1 \notin DOMAIN numbered
    THEN Put(numbered, 1, Val(general)) ELSE numbered

TakeProfitsOf(numbered, general) ==
    WithGeneral(AsTierOne(numbered, general), general)

\* lines 225-271: take_profit and take_profit_dict
TakeProfits(text) == TakeProfitsOf(NumberedFrom(text, 1, <<>>), GeneralTp(text))

\* the words of the first SHORT timeframe pattern
ShortWords ==
    {<<"s", "h", "o", "r", "t", " ", "t", "e", "r", "m">>,
      <<"s", "h", "o", "r", "t", "-", "t", "e", "r", "m">>,
      <<"s", "h", "o", "r", "t", "t", "e", "r", "m">>,
      <<"h", "o", "u", "r", "l", "y">>, <<"h", "o", "u", "r">>,
      <<"h", "o", "u", "r", "s">>,
      <<"s", "h", "o", "r", "t", " ", "f", "r", "a", "m", "e">>,
      <<"s", "h", "o", "r", "t", "-", "f", "r", "a", "m", "e">>,
      <<"s", "h", "o", "r", "t", "f", "r", "a", "m", "e">>,
      <<"d", "a", "y">>, <<"d", "a", "i", "l", "y">>,
      <<"i", "n", "t", "r", "a", "d", "a", "y">>,
      <<"s", "c", "a", "l", "p">>,
      <<"s", "c", "a", "l", "p", "i", "n", "g">>,
      <<"q", "u", "i", "c", "k">>, <<"1", "h">>, <<"4", "h">>}

\* re.search of the first SHORT timeframe pattern: \b(...)\b
HasShortWord(text) ==
    \E i \in 1..Len(text), w \in ShortWords :
        /\ Boundary(text, i)
        /\ StartsAt(text, i, w)
        /\ Boundary(text, i + Len(w))

\* lines 364-390: the risk level when no wording of the text gave one.
\* raised: parse_price gave None and the comparison or the subtraction
\* raises TypeError.
DefaultRisk(position, entry_price, stop_loss, timeframe) ==
    LET entry  == ParsePrice(entry_price)
        sl     == ParsePrice(stop_loss)
        sl_pct == IF position = Some("Long")
                  THEN Pct(Val(entry), Val(sl), Val(entry))
                  ELSE Pct(Val(sl), Val(entry), Val(entry))
        by_timeframe == IF timeframe = Some("SHORT") THEN "MEDIUM"
                        ELSE IF timeframe = Some("LONG") THEN "LOW"
                        ELSE "MEDIUM"
    IN  IF ~IsSome(stop_loss) \/ ~IsSome(entry_price)
        THEN Returned(Some(by_timeframe))
        ELSE IF ~IsSome(entry) THEN Raised
        ELSE IF ~FGt(Val(entry), FZero) THEN Returned(Some(by_timeframe))
        ELSE IF ~IsSome(sl) THEN Raised
        ELSE IF FLe(sl_pct, FFromInt(3)) THEN Returned(Some("LOW"))
        ELSE IF FLe(sl_pct, FFromInt(10)) THEN Returned(Some("MEDIUM"))
        ELSE Returned(Some("HIGH"))

\* a message: the text with its take-profit wording and timeframe word, and
\* what the position, entry and stop-loss patterns find in the message
Worded(text) == [text |-> text, position |-> None, entry_price |-> None, stop_loss |-> None]

\* extract_signal_data(text) for a text that names no coin and has no risk
\* wording: re.search raises re.error at the second SHORT timeframe pattern
\* unless the first one has matched; then the timeframe is SHORT.
\* line 415: the values returned
ReturnedData(m, tps, risk) ==
    IF ~HasShortWord(m.text) \/ risk.raised
    THEN [raised |-> TRUE, values |-> <<>>]
    ELSE [raised |-> FALSE,
          values |-> [coin |-> None,
                      timeframe |-> Some("SHORT"),
                      risk_level |-> risk.value,
                      limit_order |-> m.entry_price,
                      take_profit |-> tps.take_profit,
                      position |-> m.position,
                      stop_loss |-> m.stop_loss,
                      take_profit_targets |-> tps.take_profit_targets]]

ExtractedData(m) ==
    ReturnedData(m, TakeProfits(m.text),
                 DefaultRisk(m.position, m.entry_price, m.stop_loss, Some("SHORT")))

(***************************************************************************)
(* extract_signal_data called on its own.                                  *)
(***************************************************************************)
\* the longest run of digits after a take-profit keyword
MaxDigits == 3

TextDigits == {"0", "1", "9"}

DigitStrings(n) == UNION {[1..k -> TextDigits] : k \in 1..n}

Day == <<" ", "d", "a", "y">>

\* one take-profit mention: keyword, gap, digits, an optional k, and an
\* optional second number
TpTexts ==
    {kw \o gap \o n \o k \o tail :
        kw \in {<<"t", "p">>, <<"t", "a", "r", "g", "e", "t">>},
        gap \in {<<>>, <<" ">>, <<":">>},
        n \in DigitStrings(MaxDigits),
        k \in {<<>>, <<"k">>},
        tail \in {<<>>} \cup {sep \o d : sep \in {<<" ">>, <<":">>},
                                         d \in DigitStrings(1)}}

\* two numbered mentions
TwoTierTexts ==
    {<<"t", "p">> \o a \o <<" ">> \o x \o <<" ", "t", "p">> \o b \o <<" ">> \o y :
        a \in DigitStrings(1), b \in DigitStrings(1),
        x \in {<<"9">>, <<"9", "k">>}, y \in {<<"1">>, <<"1", "k">>}}

\* entry and stop-loss with the stop at 3, 4, 10, 11 and 50 percent on
\* either side of the entry, and a zero entry
RiskMessages ==
    {[text |-> Tail(Day), position |-> position,
      entry_price |-> entry_price, stop_loss |-> stop_loss] :
        position \in {None, Some("Long"), Some("Short")},
        entry_price \in {None, Some(<<"1", "0", "0">>), Some(<<"0">>)},
        stop_loss \in {None} \cup {Some(s) : s \in {<<"9", "7">>,
                                            <<"9", "6">>,
                                            <<"9", "0">>,
                                            <<"8", "9">>,
                                            <<"1", "0", "3">>,
                                            <<"1", "0", "4">>,
                                            <<"1", "1", "0">>,
                                            <<"1", "1", "1">>,
                                            <<"1", "5", "0">>,
                                            <<"5", "0">>}}}

ExtractArgs ==
    {Worded(t \o day) : t \in TpTexts \cup TwoTierTexts, day \in {<<>>, Day}}
    \cup RiskMessages

ExtractInit ==
    /\ BatchIdle
    /\ BotIdle
    /\ price_cache = EmptyCache
    /\ arg \in ExtractArgs
    /\ ret = None

CallExtractSignalData ==
    /\ ret = None
    /\ ret' = Some(ExtractedData(arg))
    /\ UNCHANGED <<arg, batch, bot, price_cache>>

ExtractNext == CallExtractSignalData

ExtractSpec == ExtractInit /\ [][ExtractNext]_vars

(***************************************************************************)
(* periodic_signal_check: a batch pass, then the completion fan-out, with  *)
(* the users' commands arriving while a send is awaited.                   *)
(***************************************************************************)
HourSeconds == 3600

\* completed_signals: the stored signals with an exit_date within the last
\* hour and a status other than PENDING, as positions in the store
Completed ==
    SelectSeq([i \in 1..Len(signals) |-> i],
              LAMBDA i : /\ IsSome(signals[i].exit_date)
                         /\ signals[i].status # Some(PENDING)
                         /\ now - Val(signals[i].exit_date) < HourSeconds)

\* the user loop sends the signal's completion to this user
Deliverable(user_info, signal) ==
    /\ IsSubscribed(user_info)
    /\ Wanted(SettingsOf(user_info.chat_id), IsFavorite(user_info, signal.coin),
              signal.risk_level, signal.timeframe)

\* the next send of the two loops from signal s, user u on: Some(<<s, u>>),
\* or None when the loops end without one
NextSend(completed, s, u) ==
    LET pairs == {p \in (s..Len(completed)) \X (1..Len(users)) :
                     /\ p[1] > s \/ p[2] >= u
                     /\ Deliverable(users[p[2]], signals[completed[p[1]]])}
    IN  IF pairs = {} THEN None
        ELSE Some(CHOOSE p \in pairs :
                      \A q \in pairs : p[1] < q[1] \/ (p[1] = q[1] /\ p[2] <= q[2]))

InPass == Some([phase |-> "pass", completed |-> <<>>, s |-> 0, u |-> 0, size |-> 0])

\* run the loops up to the next await of send_message, or to their end
SendNext(completed, next) ==
    IF next = None
    THEN job' = None /\ sent' = sent
    ELSE /\ sent' = Append(sent, [chat_id |-> users[Val(next)[2]].chat_id,
                                  kind |-> "update",
                                  signal |-> completed[Val(next)[1]]])
         /\ job' = Some([phase |-> "notify", completed |-> completed,
                         s |-> Val(next)[1], u |-> Val(next)[2],
                         size |-> Len(users)])

\* run_repeating(periodic_signal_check, interval=600)
Interval == 600

\* the job queue runs periodic_signal_check at its time, and the check
\* starts a pass
TimerFires ==
    /\ job = None
    /\ now >= next_t
    /\ next_t' = next_t + Interval
    /\ StartPass
    /\ job' = InPass
    /\ UNCHANGED <<arg, ret, users, settings, coins, sent, handled,
                   subscribers, price_cache>>

\* the pass of the job goes on; an exception of the pass ends the job
JobStep ==
    /\ job = InPass
    /\ Step
    /\ job' = IF pc' = "raised" THEN None ELSE job
    /\ UNCHANGED <<arg, ret, users, settings, coins, sent, handled,
                   subscribers, next_t, price_cache>>

\* the pass returns; if it returned True the fan-out starts
JobNotifies ==
    /\ job = InPass
    /\ EndPass
    /\ IF updated
       THEN SendNext(Completed, NextSend(Completed, 1, 1))
       ELSE job' = None /\ sent' = sent
    /\ UNCHANGED <<arg, ret, users, settings, coins, handled, subscribers,
                   next_t, price_cache>>

\* send_message returns, between the passes of other callers (a pass has no
\* point where the event loop takes over): the user loop goes on, and raises
\* RuntimeError if user_data["users"] has changed size during the iteration
JobResumes ==
    /\ IsSome(job)
    /\ Val(job).phase = "notify"
    /\ pc # "run"
    /\ IF Len(users) # Val(job).size
       THEN job' = None /\ sent' = sent
       ELSE SendNext(Val(job).completed,
                     NextSend(Val(job).completed, Val(job).s, Val(job).u + 1))
    /\ UNCHANGED <<batch, arg, ret, users, settings, coins, handled,
                   subscribers, next_t, price_cache>>

\* two signals on ETH with the risk under the key ingestion writes
NotifyStores ==
    { << [Plain EXCEPT !.coin = Some("ETH"), !.limit_order = Some(Str80),
                       !.take_profit = Some(Str90), !.risk = Some("HIGH")],
         [Plain EXCEPT !.coin = Some("ETH"), !.limit_order = Some(Str80),
                       !.take_profit = Some(Str90), !.risk = Some("MEDIUM"),
                       !.timeframe = Some("MID")] >> }

\* the settings the users have: none at all, one choice after the other, or
\* a risk filter for the first chat
SettingsTables ==
    { [c \in ChatIds |-> None],
      [c \in ChatIds |->
          IF c % 3 = 1
          THEN Some([DefaultSettings EXCEPT !.notify_all_signals = FALSE,
                                            !.notify_favorites_only = TRUE])
          ELSE IF c % 3 = 2 THEN None
          ELSE Some([DefaultSettings EXCEPT !.timeframe_filter = "MID"])],
      [c \in ChatIds |->
          IF c = 1 THEN Some([DefaultSettings EXCEPT !.risk_filter = "HIGH"])
          ELSE None] }

NotifyInit ==
    /\ signals \in NotifyStores
    /\ now = 0
    /\ pc = "idle"
    /\ idx = 1
    /\ updated = FALSE
    /\ looked = {}
    /\ unavailable = {}
    /\ before = signals
    /\ disk = signals
    /\ NoCall
    /\ users = <<>>
    /\ settings \in SettingsTables
    /\ coins = CoinsList
    /\ sent = <<>>
    /\ handled = None
    /\ job = None
    /\ subscribers = <<>>
    /\ next_t = 0
    /\ price_cache = EmptyCache

NotifyNext ==
    \/ \E c \in ChatIds : Start(c)
    \/ \E c \in ChatIds : Subscribe(c)
    \/ \E c \in ChatIds : Unsubscribe(c)
    \/ \E c \in ChatIds, remove \in BOOLEAN, found \in BOOLEAN :
           Coins(c, remove, found)
    \/ TimerFires
    \/ JobStep
    \/ JobNotifies
    \/ JobResumes

NotifySpec == NotifyInit /\ [][NotifyNext]_vars

(***************************************************************************)
(* The repeating job over the hour after the first check, next to the      *)
(* passes /performance, /signals and the signals view start.  The clock    *)
(* starts at the first run of the job.  get_crypto_price and               *)
(* save_signals_data never hand control to the event loop (requests.get    *)
(* and open block), so a pass runs from its start to its end without       *)
(* another coroutine in between; the check is suspended only in            *)
(* send_message.                                                           *)
(***************************************************************************)
\* how many more runs of the job the clock reaches
MaxChecks == 6

\* two chats that sent /start
ChecksInit ==
    /\ signals \in NotifyStores
    /\ now = 0
    /\ pc = "idle"
    /\ idx = 1
    /\ updated = FALSE
    /\ looked = {}
    /\ unavailable = {}
    /\ before = signals
    /\ disk = signals
    /\ NoCall
    /\ users = <<NewUser(1), NewUser(2)>>
    /\ settings = [c \in ChatIds |-> None]
    /\ coins = CoinsList
    /\ sent = <<>>
    /\ handled = None
    /\ job = None
    /\ subscribers = <<1, 2>>
    /\ next_t = 0
    /\ price_cache = EmptyCache

\* performance_command, signals_command and handle_performance_callback
\* await update_all_signals_performance(); the handler runs while the job
\* is not in its own pass
CommandStartsPass == job # InPass /\ StartPass /\ UNCHANGED others

CommandStep == job # InPass /\ Step /\ UNCHANGED others

CommandEndsPass == job # InPass /\ EndPass /\ UNCHANGED others

\* the time of the next run comes
Wait ==
    /\ job = None
    /\ pc # "run"
    /\ now < next_t
    /\ next_t <= MaxChecks * Interval
    /\ now' = next_t
    /\ UNCHANGED <<signals, pc, idx, updated, looked, unavailable, before, disk,
                   others>>

ChecksNext ==
    \/ TimerFires
    \/ JobStep
    \/ JobNotifies
    \/ JobResumes
    \/ CommandStartsPass
    \/ CommandStep
    \/ CommandEndsPass
    \/ Wait

ChecksSpec == ChecksInit /\ [][ChecksNext]_vars

(***************************************************************************)
(* get_crypto_price called again and again while time passes.              *)
(***************************************************************************)
\* how many expiry periods the clock runs through
MaxPeriods == 1

CacheTimes ==
    {0} \cup {k * PRICE_CACHE_EXPIRY + d : k \in 1..MaxPeriods, d \in {0 - 1, 0}}

CacheInit ==
    /\ BatchIdle
    /\ BotIdle
    /\ NoCall
    /\ price_cache = EmptyCache

\* a caller looks a symbol up
Lookup(symbol, net) ==
    LET r == GetCryptoPrice(symbol, net, price_cache, now)
    IN  /\ arg' = StrArg(symbol)
        /\ ret' = Some([price |-> r.price, requests |-> r.requests])
        /\ price_cache' = r.cache
        /\ UNCHANGED <<batch, bot>>

CacheTick ==
    /\ \E t \in CacheTimes : t > now /\ now' = t
    /\ UNCHANGED <<signals, pc, idx, updated, looked, unavailable, before, disk,
                   arg, ret, bot, price_cache>>

CacheNext ==
    \/ \E symbol \in Symbols, net \in Networks : Lookup(symbol, net)
    \/ CacheTick

CacheSpec == CacheInit /\ [][CacheNext]_vars

(***************************************************************************)
(* The claims.                                                             *)
(***************************************************************************)
Statuses == {Some(PENDING), Some(HIT_TARGET), Some(HIT_STOPLOSS), Some(EXPIRED)}

Terminal(signal) == signal.status \in Statuses \ {Some(PENDING)}

\* C1: over every step of every pass, whatever the prices and the clock, a
\* signal whose status is terminal keeps exactly that status (no second
\* terminal value, no return to PENDING), and a status that changes becomes
\* PENDING or one of the three terminal values.
StatusMonotone ==
    [][\A i \in 1..Len(signals) :
          /\ Terminal(signals[i]) => signals'[i].status = signals[i].status
          /\ signals'[i].status # signals[i].status
                => signals'[i].status \in Statuses]_vars

\* a pass that ran to its end after a signal had become terminal at an
\* earlier time, and looked up no price
TerminalOutlivesPass ==
    /\ pc = "done"
    /\ looked = {}
    /\ \E i \in 1..Len(signals) :
          /\ Terminal(signals[i])
          /\ IsSome(signals[i].coin)
          /\ IsSome(signals[i].exit_date)
          /\ Val(signals[i].exit_date) < now

\* C2: evaluating a signal whose status is terminal changes none of its
\* fields, for every price and every clock value, and calls no price
\* lookup; a step of a batch pass leaves a terminal signal as it is and adds
\* no lookup for it.
TerminalIsNoOp ==
    /\ [](\A i \in 1..Len(signals) :
             Terminal(signals[i]) =>
                 \A price \in PriceOutcomes(signals[i].coin), t \in TimePoints :
                     CheckSignalPerformance(signals[i], price, t)
                         = [signal |-> signals[i], raised |-> FALSE, lookup |-> FALSE])
    /\ [][\A i \in 1..Len(signals) :
             Terminal(signals[i]) =>
                 /\ signals'[i] = signals[i]
                 /\ i \notin looked => i \notin looked']_vars

\* the loop of a pass has gone past a signal that was terminal before, its
\* exit fields written at an earlier time
TerminalSkipped ==
    /\ pc = "run"
    /\ idx = 2
    /\ 1 \notin looked
    /\ Terminal(signals[1])
    /\ IsSome(signals[1].performance)
    /\ IsSome(signals[1].exit_price)
    /\ IsSome(signals[1].exit_date)
    /\ Val(signals[1].exit_date) < now


\* the loop of a pass stands before a signal
AtLoop == pc = "run" /\ idx <= Len(signals)

\* a signal the evaluator works on: PENDING, with a coin
Open(signal) ==
    /\ signal.status = Some(PENDING)
    /\ IsSome(signal.coin)
    /\ Val(signal.coin) # ""

\* every tier value of the signal parses to a nonzero number
WellTiered(signal) ==
    \A k \in 1..Len(TpTargets(signal)) : Truthy(TpTargets(signal)[k].price)

\* the prices a lookup for the signal's coin can answer
Prices(signal) == PriceOutcomes(signal.coin) \ {None}

\* the parsed entry price
Entry(signal) == ParsePrice(signal.limit_order)

ExitFieldsSet(signal) ==
    /\ IsSome(signal.exit_price)
    /\ IsSome(signal.exit_date)
    /\ IsSome(signal.performance)

\* C3: in every reachable state a signal's status is terminal if and only
\* if exit_price, exit_date and performance are all set, and the three
\* fields change only in a step that takes the status from PENDING to a
\* terminal value.
ExitFieldsWithStatus ==
    /\ [](\A i \in 1..Len(signals) :
             Terminal(signals[i]) <=> ExitFieldsSet(signals[i]))
    /\ [][\A i \in 1..Len(signals) :
             <<signals'[i].exit_price, signals'[i].exit_date, signals'[i].performance>>
                 # <<signals[i].exit_price, signals[i].exit_date, signals[i].performance>>
             => ~Terminal(signals[i]) /\ Terminal(signals'[i])]_vars

\* the tier closest to the entry: the lowest price for Long, the highest
\* for Short
Closest(signal) ==
    LET tiers == TpTargets(signal)
    IN  tiers[CHOOSE k \in 1..Len(tiers) : \A j \in 1..Len(tiers) :
                 IF IsLong(signal) THEN FLe(Val(tiers[k].price), Val(tiers[j].price))
                 ELSE FGe(Val(tiers[k].price), Val(tiers[j].price))]

TargetMet(signal, current) ==
    \/ \E k \in 1..Len(TpTargets(signal)) :
          Reached(IsLong(signal), current, Val(TpTargets(signal)[k].price))
    \/ /\ Truthy(ParsePrice(signal.take_profit))
       /\ Reached(IsLong(signal), current, Val(ParsePrice(signal.take_profit)))

\* the price meets the stop-loss condition of the signal
StopMet(signal, current) ==
    Reached(~IsLong(signal), current, StopLoss(signal, Val(Entry(signal))))

ExpiryAtHorizon ==
    \A i \in 1..Len(signals) : \A price \in Prices(signals[i]) :
        LET signal == WithStatus(signals[i])
            r      == CheckSignalPerformance(signal, price, now).signal
            met    == /\ Truthy(Entry(signal))
                      /\ TargetMet(signal, Val(price)) \/ StopMet(signal, Val(price))
        IN  ( /\ Open(signal)
              /\ WellTiered(signal)
              /\ IsSome(signal.timestamp)
              /\ Val(signal.timestamp).ok )
            => /\ (now > Deadline(signal) /\ ~met)
                  => /\ r.status = Some(EXPIRED)
                     /\ r.exit_price = price
                     /\ Truthy(Entry(signal))
                           => r.performance
                                = Some(Gain(signal, Val(price), Val(Entry(signal))))
               /\ now <= Deadline(signal) => r.status # Some(EXPIRED)

\* 2^-30, less than 1e-9
Tolerance == [s |-> 0, m |-> <<1>>, e |-> -30]

\* whether p is -20: exactly, or within the tolerance
IsMinus20(p, exact) ==
    IF exact THEN p = FNeg(FFromInt(20))
    ELSE LET d == FAdd(p, FFromInt(20)) IN FLt([d EXCEPT !.s = 0], Tolerance)

\* the stop-loss rule: the effective stop is the explicit stop_loss when
\* that is usable, otherwise 0.8 times the entry for Long and 1.2 times the
\* entry for Short; with no target reached the signal becomes HIT_STOPLOSS
\* exactly when the price has crossed the effective stop, then with that
\* stop as exit_price and, for the default stop, the performance -20.
\* exact: an explicit stop is usable when it parses, and -20 is meant
\* exactly; otherwise it is usable when it parses to a nonzero number, and
\* -20 is meant within the tolerance.
StopLossRule(exact) ==
    AtLoop => \A price \in Prices(signals[idx]) :
        LET signal   == WithStatus(signals[idx])
            r        == CheckSignalPerformance(signal, price, now).signal
            explicit == ParsePrice(signal.stop_loss)
            usable   == IF exact THEN IsSome(explicit) ELSE Truthy(explicit)
            stop     == IF usable THEN Val(explicit)
                        ELSE FMul(Val(Entry(signal)),
                                  FDiv(FFromInt(IF IsLong(signal) THEN 8 ELSE 12),
                                       FFromInt(10)))
        IN  ( /\ Open(signal)
              /\ Truthy(Entry(signal))
              /\ WellTiered(signal)
              /\ ~TargetMet(signal, Val(price)) )
            => /\ r.status = Some(HIT_STOPLOSS)
                    <=> Reached(~IsLong(signal), Val(price), stop)
               /\ r.status = Some(HIT_STOPLOSS)
                    => /\ r.exit_price = Some(stop)
                       /\ ~usable => IsMinus20(Val(r.performance), exact)

TimestampContained ==
    pc = "raised"
        => IsSome(signals[idx].timestamp) /\ Val(signals[idx].timestamp).ok

\* C9: evaluating a PENDING signal raises nothing, whichever of its numeric
\* strings is malformed (the timestamp being well-formed).
MalformedNumbersTolerated ==
    \A i \in 1..Len(signals) : \A price \in PriceOutcomes(signals[i].coin) :
        LET signal == WithStatus(signals[i])
        IN  ( /\ Open(signal)
              /\ IsSome(signal.timestamp)
              /\ Val(signal.timestamp).ok )
            => ~CheckSignalPerformance(signal, price, now).raised

\* C10: evaluating a PENDING signal when the price lookup answers
\* unavailable changes no field and raises nothing, at every clock value;
\* the step of a pass in which a lookup answers unavailable leaves the
\* signal as it was and moves the loop on to the next signal.
UnavailableLeavesUntouched ==
    /\ [](\A i \in 1..Len(signals) :
             LET signal == WithStatus(signals[i])
             IN  Open(signal)
                 => CheckSignalPerformance(signal, None, now)
                      = [signal |-> signal, raised |-> FALSE, lookup |-> TRUE])
    /\ [][\A i \in 1..Len(signals) :
             (i \in unavailable' /\ i \notin unavailable)
             => /\ signals'[i] = WithStatus(signals[i])
                /\ pc' = "run"
                /\ idx' = i + 1]_vars

\* the overdue signal got no price, is still as it was, and the pass has
\* evaluated the signal behind it
OverdueUnpricedOthersEvaluated ==
    /\ signals[1] = Overdue
    /\ now > Deadline(signals[1])
    /\ 1 \in unavailable
    /\ 2 \in looked



\* the signals the pass moved from PENDING to a terminal status
Transitioned ==
    {i \in 1..Len(signals) :
        /\ WithStatus(before[i]).status = Some(PENDING)
        /\ Terminal(signals[i])}

\* C11: a pass that returns, returns true exactly when it moved at least one
\* signal from PENDING to a terminal status; refreshing
\* unrealized_performance, initialising a missing status or skipping a signal
\* without a price does not count.
ReturnsTrueIffTransition ==
    pc = "done" => (updated <=> Transitioned # {})

\* a pass has returned true for one transition, having refreshed another
\* signal that stayed PENDING
ReturnedTrueWithRefresh ==
    /\ pc = "done"
    /\ updated
    /\ \E i \in 1..Len(signals) :
           /\ signals[i].status = Some(PENDING)
           /\ IsSome(signals[i].unrealized_performance)
           /\ before[i].unrealized_performance = None

\* C12: a pass that moved a signal out of PENDING has written the store to
\* disk when it ends, so the file agrees with the memory afterwards; a pass
\* that moved none writes nothing.
TransitionsPersisted ==
    /\ []((pc \in {"done", "raised"} /\ Transitioned # {}) => disk = signals)
    /\ [][(pc = "run" /\ pc' = "done" /\ Transitioned = {}) => disk' = disk]_vars

\* digits with at most one decimal point and at least one digit
Numeral(str) ==
    /\ str # <<>>
    /\ \A i \in 1..Len(str) : IsDigit(str[i]) \/ str[i] = "."
    /\ Cardinality({i \in 1..Len(str) : str[i] = "."}) <= 1
    /\ \E i \in 1..Len(str) : IsDigit(str[i])

\* a price string: a numeral with commas and spaces anywhere and an optional
\* trailing k or K
PriceString(str) ==
    LET bare == Remove(Remove(str, ","), " ")
    IN  \/ Numeral(bare)
        \/ /\ bare # <<>>
           /\ bare[Len(bare)] \in {"k", "K"}
           /\ Numeral(SubSeq(bare, 1, Len(bare) - 1))

Called == IsSome(ret)

\* C13: parse_price raises for no argument; None and '' give None, a number
\* comes back unchanged, a price string gives its value ("88k" 88000, "100K"
\* 100000, "1,234.5" 1234.5) and every other string gives None.
ParsePriceTotal ==
    Called =>
        /\ ~Val(ret).raised
        /\ arg.kind = "none" => Val(ret).value = None
        /\ arg.kind = "num" => Val(ret).value = Some(arg.num)
        /\ arg.kind = "str" => (IsSome(Val(ret).value) <=> PriceString(arg.str))
        /\ arg = StrArg(<<"8", "8", "k">>)
               => Val(ret).value = Some(FFromInt(88000))
        /\ arg = StrArg(<<"1", "0", "0", "K">>)
               => Val(ret).value = Some(FFromInt(100000))
        /\ arg = StrArg(<<"1", ",", "2", "3", "4", ".", "5">>)
               => Val(ret).value = Some(FDiv(FFromInt(12345), FFromInt(10)))

NoUnrealizedOnceTerminal ==
    \A i \in 1..Len(signals) :
        Terminal(signals[i]) => signals[i].unrealized_performance = None

\* C16 as stated: hit_tp is present only on a HIT_TARGET signal whose
\* take_profit_targets holds more than one tier.
HitTpOnlyWithSeveralTiers ==
    \A i \in 1..Len(signals) :
        IsSome(signals[i].hit_tp)
        => /\ signals[i].status = Some(HIT_TARGET)
           /\ Len(TpTargets(signals[i])) > 1

\* C16, amended: hit_tp is present only on a HIT_TARGET signal that left at
\* the price of the tier of that number in its take_profit_targets (one tier
\* is enough); it is on no PENDING, HIT_STOPLOSS or EXPIRED signal and on no
\* HIT_TARGET reached through the scalar take_profit.
HitTpOnlyThroughTier ==
    \A i \in 1..Len(signals) :
        IsSome(signals[i].hit_tp)
        => /\ signals[i].status = Some(HIT_TARGET)
           /\ \E k \in 1..Len(TpTargets(signals[i])) :
                  /\ TpTargets(signals[i])[k].num = Val(signals[i].hit_tp)
                  /\ TpTargets(signals[i])[k].price = signals[i].exit_price

\* a signal whose mapping holds a single tier has left at it, with hit_tp = 1
SingleTierHit ==
    \E i \in 1..Len(signals) :
        /\ signals[i].status = Some(HIT_TARGET)
        /\ signals[i].hit_tp = Some(1)
        /\ Len(TpTargets(signals[i])) = 1

\* the handler has just dealt with a message that tags the bot
Tagged == IsSome(handled) /\ Val(handled).msg.tagged

\* the handler returned after telling the group what is missing
Declined == Val(handled).outcome = "warned" /\ Val(handled).replies # <<>>

\* C17: no stored signal lacks a coin, and a tagged message in which no
\* coin is found is answered with a warning while the signal store and the
\* coin-tracking data stay as they were.
NoCoinWarned ==
    /\ [](\A i \in 1..Len(signals) : IsSome(signals[i].coin))
    /\ []((Tagged /\ Val(handled).msg.coin = None) => Declined)
    /\ [][(Tagged' /\ handled' # handled /\ Val(handled').msg.coin = None)
              => signals' = signals /\ coins' = coins]_vars

\* C18: no stored signal lacks both take_profit and take-profit tiers, and
\* a tagged message in which neither is found is rejected while the signal
\* store stays as it was.
NoTargetRejected ==
    /\ [](\A i \in 1..Len(signals) :
             IsSome(signals[i].take_profit) \/ TpTargets(signals[i]) # <<>>)
    /\ []((Tagged /\ Val(handled).msg.take_profit = None) => Declined)
    /\ [][(Tagged' /\ handled' # handled /\ Val(handled').msg.take_profit = None)
              => signals' = signals]_vars

\* the entry of the symbol's cleaned key is younger than the expiry window
Fresh(symbol) ==
    /\ IsSome(price_cache[CleanSymbol(symbol)])
    /\ now - Val(price_cache[CleanSymbol(symbol)])[1] < 300

\* C19: whatever lookups came before, a lookup of a symbol whose cache
\* entry (under the lower-cased symbol without '$', so that 'BTC', 'btc' and
\* '$BTC' share the entry <<"b", "t", "c">>) is younger than 300 seconds
\* returns the cached price and issues no request, and a lookup changes the
\* cache only by writing the price a request has just fetched.
CacheShortCircuits ==
    \A symbol \in Symbols, net \in Networks :
        LET r == GetCryptoPrice(symbol, net, price_cache, now)
        IN  /\ CleanSymbol(symbol) \in {<<"b", "t", "c">>, <<"e", "t", "h">>}
            /\ Fresh(symbol)
                  => /\ r.price = Some(Val(price_cache[CleanSymbol(symbol)])[2])
                     /\ r.requests = 0
                     /\ r.cache = price_cache
            /\ r.cache # price_cache
                  => /\ r.requests > 0
                     /\ net.found_at # 0
                     /\ r.price = Some(net.price)
                     /\ r.cache = [price_cache EXCEPT ![CleanSymbol(symbol)] =
                                      Some(<<now, net.price>>)]

\* '$BTC' has just been answered from an entry written 299 seconds ago by
\* a lookup of another spelling, without a request
AnsweredFromCache ==
    /\ arg = StrArg(<<"$", "B", "T", "C">>)
    /\ IsSome(ret)
    /\ Val(ret).requests = 0
    /\ IsSome(price_cache[<<"b", "t", "c">>])
    /\ now - Val(price_cache[<<"b", "t", "c">>])[1] = 299
    /\ Val(ret).price = Some(Val(price_cache[<<"b", "t", "c">>])[2])

\* the user's record says subscribed
SubscribedNow(c) == Known(c) /\ users[Pos(c)].subscribed

Passed(completed, s, u, next) ==
    {p \in (s..Len(completed)) \X (1..Len(users)) :
        /\ p[1] > s \/ p[2] >= u
        /\ \/ next = None
           \/ p[1] < Val(next)[1]
           \/ p[1] = Val(next)[1] /\ p[2] < Val(next)[2]}

\* a subscribed user with notify-all, timeframe_filter ALL and a risk filter
RiskFiltered(user_info) ==
    LET st == SettingsOf(user_info.chat_id)
    IN  /\ user_info.subscribed
        /\ st.notify_all_signals /\ ~st.notify_favorites_only
        /\ st.timeframe_filter = "ALL"
        /\ st.risk_filter # "ALL"

\* the fan-out passes this user for this signal although the signal was
\* stored with the risk level of the user's filter
WronglyPassed(completed, p) ==
    /\ RiskFiltered(users[p[2]])
    /\ signals'[completed[p[1]]].risk =
           Some(SettingsOf(users[p[2]].chat_id).risk_filter)

\* C21: a subscribed user with notify-all, timeframe_filter ALL and
\* risk_filter R is sent the completion of a signal that ingestion stored
\* with risk level R (under the key risk), and is not sent the completion of
\* a signal stored with another risk level.
RiskFilterByStoredLevel ==
    /\ [][\A k \in (Len(sent) + 1)..Len(sent') :
              \A i \in 1..Len(users) :
                  (users[i].chat_id = sent'[k].chat_id /\ RiskFiltered(users[i]))
                  => signals'[sent'[k].signal].risk =
                         Some(SettingsOf(users[i].chat_id).risk_filter)]_vars
    /\ [][JobNotifies /\ updated
              => \A p \in Passed(Completed', 1, 1, NextSend(Completed', 1, 1)) :
                     ~WronglyPassed(Completed', p)]_vars
    /\ [][(JobResumes /\ Len(users) = Val(job).size)
              => \A p \in Passed(Val(job).completed, Val(job).s, Val(job).u + 1,
                                 NextSend(Val(job).completed, Val(job).s,
                                          Val(job).u + 1)) :
                     ~WronglyPassed(Val(job).completed, p)]_vars

\* extract_signal_data has returned a result
Extracted == IsSome(ret) /\ ~Val(ret).raised

\* C22: in every result of extract_signal_data whose take_profit_targets is
\* not empty, the tier numbers are positive integers and take_profit is the
\* price of tier 1 when tier 1 is present, of the lowest tier otherwise.
TierMirror ==
    (Extracted /\ DOMAIN Val(ret).values.take_profit_targets # {})
    => LET targets == Val(ret).values.take_profit_targets
       IN  /\ \A n \in DOMAIN targets : n >= 1
           /\ Val(ret).values.take_profit =
                  Some(IF 1 \in DOMAIN targets THEN targets[1]
                       ELSE LowestTier(targets))

\* the text is one untiered mention, keyword, space and price, followed by
\* the timeframe word
Untiered(text, price) ==
    \E kw \in {<<"t", "p">>, <<"t", "a", "r", "g", "e", "t">>} :
        text = kw \o <<" ">> \o price \o Day

UntieredPrices == {n \o k : n \in DigitStrings(MaxDigits), k \in {<<>>, <<"k">>}}

\* C25: for a text whose only take-profit mention is a keyword followed
\* directly by a price, the result has take_profit_targets = {1: price} and
\* take_profit = price.
UntieredIsTierOne ==
    \A price \in UntieredPrices :
        (Extracted /\ Untiered(arg.text, price))
        => /\ Val(ret).values.take_profit_targets = Put(<<>>, 1, price)
           /\ Val(ret).values.take_profit = Some(price)

\* |x|
FAbs(x) == [x EXCEPT !.s = 0]

\* the risk level of the absolute stop distance |entry - stop| / entry * 100
DistanceRisk(entry, stop) ==
    LET d == FMul(FDiv(FAbs(FSub(entry, stop)), entry), FFromInt(100))
    IN  IF FLe(d, FFromInt(3)) THEN "LOW"
        ELSE IF FLe(d, FFromInt(10)) THEN "MEDIUM"
        ELSE "HIGH"

\* C23: with no risk wording in the text and both an entry price and a
\* stop-loss extracted, risk_level is LOW, MEDIUM or HIGH by the absolute
\* distance of the stop from the entry, for every position and on whichever
\* side of the entry the stop lies.
RiskByAbsoluteDistance ==
    (/\ Extracted
     /\ IsSome(arg.entry_price) /\ IsSome(arg.stop_loss)
     /\ FGt(Val(ParsePrice(arg.entry_price)), FZero))
    => Val(ret).values.risk_level =
           Some(DistanceRisk(Val(ParsePrice(arg.entry_price)),
                             Val(ParsePrice(arg.stop_loss))))

\* C24: a PENDING signal with a known entry and a non-empty tier mapping,
\* evaluated at a price that has reached none of its tiers, does not become
\* HIT_TARGET through its scalar take_profit, Long or Short.
ScalarOnlyWithoutTiers ==
    AtLoop => \A price \in Prices(signals[idx]) :
        LET signal == WithStatus(signals[idx])
            r      == CheckSignalPerformance(signal, price, now)
        IN  ( /\ Open(signal)
              /\ Truthy(Entry(signal))
              /\ TpTargets(signal) # <<>>
              /\ WellTiered(signal)
              /\ HitTp(TpTargets(signal), Val(price), IsLong(signal)) = None )
            => r.signal.status # Some(HIT_TARGET)

\* C30: after any sequence of /start, /subscribe, /unsubscribe and /coins,
\* the subscribers list holds a chat id exactly when that chat's record has
\* subscribed = true, and holds no chat id twice
Listed(c) == \E k \in 1..Len(subscribers) : subscribers[k] = c

SubscribersMirrorRecords ==
    /\ \A c \in ChatIds :
           Listed(c) <=> (Known(c) /\ IsSubscribed(users[Pos(c)]))
    /\ \A i, j \in 1..Len(subscribers) :
           subscribers[i] = subscribers[j] => i = j

\* C27: no subscriber is sent the completion of the same signal twice, over
\* any sequence of periodic checks
NotifiedOnce ==
    \A i, j \in 1..Len(sent) :
        (sent[i].chat_id = sent[j].chat_id /\ sent[i].signal = sent[j].signal)
            => i = j

\* C28: every transition out of PENDING is notified by some periodic check
\* to every subscribed user whose filters admit the signal.  Once the exit is
\* an hour old no later check collects the signal, so by then the message has
\* been sent
Notified(c, i) ==
    \E k \in 1..Len(sent) : sent[k].chat_id = c /\ sent[k].signal = i

TransitionsNotified ==
    \A i \in 1..Len(signals), u \in 1..Len(users) :
        (/\ Terminal(signals[i])
         /\ IsSome(signals[i].exit_date)
         /\ now - Val(signals[i].exit_date) >= HourSeconds
         /\ Deliverable(users[u], signals[i]))
            => Notified(users[u].chat_id, i)

\* C26: when a pass started on demand and the pass of the timer check
\* overlap, each signal makes at most one transition out of PENDING and its
\* status, performance, exit_price and exit_date are written by one pass
\* only: these fields change only in a step of the one running pass that
\* takes the signal from PENDING to a terminal status, and never again
ExitFields(signal) ==
    <<signal.status, signal.performance, signal.exit_price, signal.exit_date>>

Evaluable(signal) ==
    /\ IsSome(signal.coin)
    /\ IsSome(signal.timestamp)
    /\ Val(signal.timestamp).ok

TerminalOncePriced ==
    [][(/\ pc = "run"
        /\ idx <= Len(signals)
        /\ Evaluable(signals[idx])
        /\ WithStatus(signals[idx]).status = Some(PENDING)
        /\ now > Deadline(signals[idx])
        /\ idx \notin looked
        /\ idx \in looked'
        /\ idx \notin unavailable')
           => Terminal(signals'[idx])]_vars

=============================================================================
